---- MODULE Spec2Model ----
(***************************************************************************)
(* Model of the reactive schedule generator (class ScheduleGenerator,      *)
(* src/app/lib/scheduleGenerator.ts).  Three supervisors S1, S2, S3 are    *)
(* scheduled over totalDays days.  S1 follows a fixed regime; S2 and S3    *)
(* are driven day by day by a scored choice among their legal actions.     *)
(*                                                                         *)
(* Days are numbered from 0 as in the source; a schedule is a function     *)
(* from 0..totalDays-1 to the SupervisorState letters.                     *)
(***************************************************************************)
EXTENDS Integers, Sequences, FiniteSets, TLC

VARIABLES
    config,        \* this.config: regime (workDays, restDays), inductionDays, totalDrillingDays
    priorities,    \* this.priorities
    totalDays,     \* this.totalDays
    pc,            \* position inside generateSchedule: "start", "coordinate", "done"
    day,           \* loop variable of generateCoordinatedSecondarySupervisors
    s1, s2, s3,    \* the three schedules (state per day)
    s3StartDay,    \* day from which S3 is active
    stateS2,       \* S2State of supervisor 2
    stateS3,       \* S2State of supervisor 3
    result,        \* drillersPerDay, errors and stats of the returned Schedule
    twin,          \* a second generator built from the same configuration
    planner        \* the SchedulePlanner component: form fields, priorities,
                   \* schedule, isLoading, error and the position inside
                   \* handleGenerateSchedule

vars == <<config, priorities, totalDays, pc, day, s1, s2, s3, s3StartDay,
          stateS2, stateS3, result, twin, planner>>

(***************************************************************************)
(* Bounds of the explored configurations.                                  *)
(***************************************************************************)
MaxWorkDays == 4
MaxRestDays == 2
MaxInductionDays == 2
MaxTotalDrillingDays == 1

\* the longer regimes explored by SpecLong
LongWorkDays == 6
LongTotalDrillingDays == 6

\* the induction explored by SpecLongInduction, longer than the short regimes
LongInductionDays == 3

(***************************************************************************)
(* types.ts                                                                *)
(***************************************************************************)
SupervisorState == {"S", "I", "P", "B", "D", "-"}

PriorityLevel == {"high", "medium", "low"}

AlgorithmPriorities ==
    [twoDrillers: PriorityLevel, minimumRest: PriorityLevel,
     minimumDrilling: PriorityLevel, noThreeDrillers: PriorityLevel,
     maxConsecutiveWork: PriorityLevel]

DEFAULT_PRIORITIES ==
    [twoDrillers |-> "high", minimumRest |-> "medium",
     minimumDrilling |-> "medium", noThreeDrillers |-> "high",
     maxConsecutiveWork |-> "low"]

S2Phase == {"IDLE", "GOING_UP", "INDUCTION", "DRILLING", "GOING_DOWN", "RESTING"}

ErrorType == {"THREE_DRILLING", "ONE_DRILLING", "INVALID_SEQUENCE",
              "NO_DRILLING", "ZERO_DRILLING", "SHORT_DRILLING"}

\* value of an optional field that is not set
Undefined == "undefined"

(***************************************************************************)
(* Arithmetic helpers of the JavaScript runtime.                           *)
(***************************************************************************)
Max(a, b) == IF a >= b THEN a ELSE b

Min(a, b) == IF a <= b THEN a ELSE b

\* Math.ceil(a / b) for a >= 0, b >= 1
CeilDiv(a, b) == (a + b - 1) \div b

\* Array.prototype.findIndex over a schedule: the first day whose state
\* passes the test (is one of the wanted states), -1 if there is none
FindIndex(schedule, wanted) ==
    LET hits == {d \in DOMAIN schedule : schedule[d] \in wanted}
    IN  IF hits = {} THEN -1
        ELSE CHOOSE d \in hits : \A e \in hits : d <= e

(***************************************************************************)
(* constructor                                                             *)
(***************************************************************************)
\* variant: the cycle estimate rounded down instead of up
ComputeTotalDays_RoundedDown(cfg) ==
    LET cycleLength == cfg.workDays + cfg.restDays
        drillingPerCycle == cfg.workDays - cfg.inductionDays - 1
        estimatedCycles == cfg.totalDrillingDays \div Max(1, drillingPerCycle)
    IN  Max(estimatedCycles * cycleLength * 2, cfg.totalDrillingDays * 2)

ComputeTotalDays(cfg) ==
    LET cycleLength == cfg.workDays + cfg.restDays
        drillingPerCycle == cfg.workDays - cfg.inductionDays - 1
        estimatedCycles == CeilDiv(cfg.totalDrillingDays, Max(1, drillingPerCycle))
    IN  Max(estimatedCycles * cycleLength * 2, cfg.totalDrillingDays * 2)

getPriorityValue(level) ==
    CASE level = "high" -> 100
      [] level = "medium" -> 10
      [] level = "low" -> 1

(***************************************************************************)
(* createEmptySchedule and generateFixedSchedule                           *)
(***************************************************************************)
createEmptySchedule == [d \in 0..(totalDays - 1) |-> "-"]

\* one of the bounded loops "for (i = 0; i < count && day < totalDays; i++)
\* schedule[day++].state = st": the schedule and the day after the loop
FillDays(schedule, from, count, st) ==
    [sched |-> [d \in DOMAIN schedule |->
                   IF d >= from /\ d < from + count /\ d < totalDays
                   THEN st ELSE schedule[d]],
     day |-> IF from >= totalDays THEN from
             ELSE Min(from + Max(count, 0), totalDays)]

DrillingDaysPerCycle == Max(1, config.workDays - config.inductionDays - 1)

\* variant: the DOWN day not taken off the rest days
ActualRestDays_WithDownDay == Max(0, config.restDays)

ActualRestDays == Max(0, config.restDays - 1)

RECURSIVE FixedCycles(_, _)
FixedCycles(schedule, from) ==
    IF from >= totalDays THEN schedule
    ELSE LET up == FillDays(schedule, from, 1, "S")
             ind == FillDays(up.sched, up.day, config.inductionDays, "I")
             drill == FillDays(ind.sched, ind.day, DrillingDaysPerCycle, "P")
             down == FillDays(drill.sched, drill.day, 1, "B")
             rest == FillDays(down.sched, down.day, ActualRestDays, "D")
         IN  FixedCycles(rest.sched, rest.day)

generateFixedSchedule(startDay) ==
    IF startDay < 0 THEN createEmptySchedule
    ELSE FixedCycles(createEmptySchedule, startDay)

(***************************************************************************)
(* getPossibleActions: the legal actions, in the order the code lists them *)
(***************************************************************************)
\* variant: induction forced for one day more than inductionDays
getPossibleActions_LongInduction(state, isActive) ==
    IF ~isActive /\ state.phase = "IDLE" THEN <<"-">>
    ELSE IF isActive /\ state.phase = "IDLE" THEN <<"S">>
    ELSE CASE state.phase = "GOING_UP" ->
                  <<IF state.isFirstCycle THEN "I" ELSE "P">>
           [] state.phase = "INDUCTION" ->
                  IF state.daysInPhase <= config.inductionDays THEN <<"I">>
                  ELSE <<"I", "P">>
           [] state.phase = "DRILLING" ->
                  IF state.daysInPhase < 2 THEN <<"P">> ELSE <<"P", "B">>
           [] state.phase = "GOING_DOWN" -> <<"D">>
           [] state.phase = "RESTING" ->
                  IF state.daysInPhase < 1 THEN <<"D">> ELSE <<"D", "S">>
           [] OTHER -> <<"-">>

\* variant: drilling offered on every day of the induction
getPossibleActions_InductionSkippable(state, isActive) ==
    IF ~isActive /\ state.phase = "IDLE" THEN <<"-">>
    ELSE IF isActive /\ state.phase = "IDLE" THEN <<"S">>
    ELSE CASE state.phase = "GOING_UP" ->
                  <<IF state.isFirstCycle THEN "I" ELSE "P">>
           [] state.phase = "INDUCTION" ->
                  <<"I", "P">>
           [] state.phase = "DRILLING" ->
                  IF state.daysInPhase < 2 THEN <<"P">> ELSE <<"P", "B">>
           [] state.phase = "GOING_DOWN" -> <<"D">>
           [] state.phase = "RESTING" ->
                  IF state.daysInPhase < 1 THEN <<"D">> ELSE <<"D", "S">>
           [] OTHER -> <<"-">>

\* variant: DOWN offered after a single DRILLING day
getPossibleActions_DownAfterOneDay(state, isActive) ==
    IF ~isActive /\ state.phase = "IDLE" THEN <<"-">>
    ELSE IF isActive /\ state.phase = "IDLE" THEN <<"S">>
    ELSE CASE state.phase = "GOING_UP" ->
                  <<IF state.isFirstCycle THEN "I" ELSE "P">>
           [] state.phase = "INDUCTION" ->
                  IF state.daysInPhase < config.inductionDays THEN <<"I">>
                  ELSE <<"I", "P">>
           [] state.phase = "DRILLING" ->
                  IF state.daysInPhase < 1 THEN <<"P">> ELSE <<"P", "B">>
           [] state.phase = "GOING_DOWN" -> <<"D">>
           [] state.phase = "RESTING" ->
                  IF state.daysInPhase < 1 THEN <<"D">> ELSE <<"D", "S">>
           [] OTHER -> <<"-">>

\* variant: DRILLING offered from REST
getPossibleActions_DrillFromRest(state, isActive) ==
    IF ~isActive /\ state.phase = "IDLE" THEN <<"-">>
    ELSE IF isActive /\ state.phase = "IDLE" THEN <<"S">>
    ELSE CASE state.phase = "GOING_UP" ->
                  <<IF state.isFirstCycle THEN "I" ELSE "P">>
           [] state.phase = "INDUCTION" ->
                  IF state.daysInPhase < config.inductionDays THEN <<"I">>
                  ELSE <<"I", "P">>
           [] state.phase = "DRILLING" ->
                  IF state.daysInPhase < 2 THEN <<"P">> ELSE <<"P", "B">>
           [] state.phase = "GOING_DOWN" -> <<"D">>
           [] state.phase = "RESTING" ->
                  IF state.daysInPhase < 1 THEN <<"D">> ELSE <<"D", "S", "P">>
           [] OTHER -> <<"-">>

\* variant: the first ascent followed by drilling when the induction has no days
getPossibleActions_NoInductionWhenZero(state, isActive) ==
    IF ~isActive /\ state.phase = "IDLE" THEN <<"-">>
    ELSE IF isActive /\ state.phase = "IDLE" THEN <<"S">>
    ELSE CASE state.phase = "GOING_UP" ->
                  <<IF state.isFirstCycle /\ config.inductionDays > 0 THEN "I" ELSE "P">>
           [] state.phase = "INDUCTION" ->
                  IF state.daysInPhase < config.inductionDays THEN <<"I">>
                  ELSE <<"I", "P">>
           [] state.phase = "DRILLING" ->
                  IF state.daysInPhase < 2 THEN <<"P">> ELSE <<"P", "B">>
           [] state.phase = "GOING_DOWN" -> <<"D">>
           [] state.phase = "RESTING" ->
                  IF state.daysInPhase < 1 THEN <<"D">> ELSE <<"D", "S">>
           [] OTHER -> <<"-">>

getPossibleActions(state, isActive) ==
    IF ~isActive /\ state.phase = "IDLE" THEN <<"-">>
    ELSE IF isActive /\ state.phase = "IDLE" THEN <<"S">>
    ELSE CASE state.phase = "GOING_UP" ->
                  <<IF state.isFirstCycle THEN "I" ELSE "P">>
           [] state.phase = "INDUCTION" ->
                  IF state.daysInPhase < config.inductionDays THEN <<"I">>
                  ELSE <<"I", "P">>
           [] state.phase = "DRILLING" ->
                  IF state.daysInPhase < 2 THEN <<"P">> ELSE <<"P", "B">>
           [] state.phase = "GOING_DOWN" -> <<"D">>
           [] state.phase = "RESTING" ->
                  IF state.daysInPhase < 1 THEN <<"D">> ELSE <<"D", "S">>
           [] OTHER -> <<"-">>

(***************************************************************************)
(* evaluateActions                                                         *)
(***************************************************************************)
pVal(level) == getPriorityValue(level)

CountP(a1, a2, a3) ==
    (IF a1 = "P" THEN 1 ELSE 0) + (IF a2 = "P" THEN 1 ELSE 0)
        + (IF a3 = "P" THEN 1 ELSE 0)

\* variant: the sign of the penalty inverted
ThreeDrillersTerm_Rewarded(countP) == IF countP > 2 THEN 1000000 ELSE 0

\* variant: three drillers counted as a surplus worth having
ThreeDrillersTerm_Surplus(countP) == IF countP > 2 THEN 500000 ELSE 0

\* 1. never three supervisors drilling
ThreeDrillersTerm(countP) == IF countP > 2 THEN -1000000 ELSE 0

\* 2. once S3 has entered, never only one
OneDrillerTerm(countP, s3Active) ==
    IF countP = 1 /\ s3Active
    THEN -((500000 * pVal(priorities.twoDrillers)) \div 100) ELSE 0

\* variant: the penalty for no driller ten times smaller
ZeroDrillersTerm_Tenth(countP, d) ==
    IF countP = 0 /\ d > config.inductionDays THEN -90000 ELSE 0

\* variant: a day without driller costs nothing
ZeroDrillersTerm_Unpenalised(countP, d) == 0

\* 3. never zero drilling
ZeroDrillersTerm(countP, d) ==
    IF countP = 0 /\ d > config.inductionDays THEN -900000 ELSE 0

\* 4. keep exactly two drilling
TwoDrillersTerm(countP) ==
    IF countP = 2 THEN (10000 * pVal(priorities.twoDrillers)) \div 10 ELSE 0

\* 5. respect the work regime
WorkLimitTerm(action, idx) ==
    LET limit == config.workDays
                   - (IF idx.isFirstCycle THEN config.inductionDays ELSE 0) - 1
    IN  IF action = "P" /\ idx.phase = "DRILLING" /\ idx.daysInPhase > limit
        THEN -((2000 * pVal(priorities.maxConsecutiveWork)) \div 10) ELSE 0

\* variant: no bonus for coming back early when drillers are missing
ReturnTerm_NoUrgentReturn(action, idx, countP) ==
    LET minRest == config.restDays - 1
    IN  IF action = "S" /\ idx.phase = "RESTING"
        THEN IF idx.daysInPhase < minRest
             THEN -((5000 * pVal(priorities.minimumRest)) \div 10)
             ELSE 1000
        ELSE 0

\* variant: the minimum rest tested before the count of drillers
ReturnTerm_RestFirst(action, idx, countP) ==
    LET minRest == config.restDays - 1
    IN  IF action = "S" /\ idx.phase = "RESTING"
        THEN IF idx.daysInPhase < minRest
             THEN -((5000 * pVal(priorities.minimumRest)) \div 10)
             ELSE IF countP < 2
                  THEN (20000 * pVal(priorities.twoDrillers)) \div 100
                  ELSE 1000
        ELSE 0

\* 6. respect the rest, unless drillers are missing
ReturnTerm(action, idx, countP) ==
    LET minRest == config.restDays - 1
    IN  IF action = "S" /\ idx.phase = "RESTING"
        THEN IF countP < 2
             THEN (20000 * pVal(priorities.twoDrillers)) \div 100
             ELSE IF idx.daysInPhase < minRest
                  THEN -((5000 * pVal(priorities.minimumRest)) \div 10)
                  ELSE 1000
        ELSE 0

\* variant: the bonus for going on drilling scaled by the minimumDrilling weight
ContinuityTerm_ByMinimumDrilling(action, idx, bonus) ==
    IF action = "P" /\ idx.phase = "DRILLING"
    THEN (bonus * pVal(priorities.minimumDrilling)) \div 10 ELSE 0

\* 7. continuity of work
ContinuityTerm(action, idx, bonus) ==
    IF action = "P" /\ idx.phase = "DRILLING" THEN bonus ELSE 0

\* variant: S1 left out of the count of drillers
evaluateActions_IgnoringS1(d, a1, a2, a3, s2Idx, s3Idx, s3Active) ==
    LET countP == CountP("-", a2, a3)
    IN  ThreeDrillersTerm(countP)
        + OneDrillerTerm(countP, s3Active)
        + ZeroDrillersTerm(countP, d)
        + TwoDrillersTerm(countP)
        + WorkLimitTerm(a2, s2Idx) + WorkLimitTerm(a3, s3Idx)
        + ReturnTerm(a2, s2Idx, countP) + ReturnTerm(a3, s3Idx, countP)
        + ContinuityTerm(a2, s2Idx, 100) + ContinuityTerm(a3, s3Idx, 50)

evaluateActions(d, a1, a2, a3, s2Idx, s3Idx, s3Active) ==
    LET countP == CountP(a1, a2, a3)
    IN  ThreeDrillersTerm(countP)
        + OneDrillerTerm(countP, s3Active)
        + ZeroDrillersTerm(countP, d)
        + TwoDrillersTerm(countP)
        + WorkLimitTerm(a2, s2Idx) + WorkLimitTerm(a3, s3Idx)
        + ReturnTerm(a2, s2Idx, countP) + ReturnTerm(a3, s3Idx, countP)
        + ContinuityTerm(a2, s2Idx, 100) + ContinuityTerm(a3, s3Idx, 50)

(***************************************************************************)
(* chooseBestMove                                                          *)
(***************************************************************************)
\* the pairs in the order of the nested loops: S2's actions outer, S3's inner
MovePairs(possibleS2, possibleS3) ==
    [k \in 1..(Len(possibleS2) * Len(possibleS3)) |->
        [s2 |-> possibleS2[((k - 1) \div Len(possibleS3)) + 1],
         s3 |-> possibleS3[((k - 1) % Len(possibleS3)) + 1]]]

\* variant: the choice replaced on "score >= bestScore"
RECURSIVE ScanMoves_LastSeen(_, _, _, _, _, _, _, _)
ScanMoves_LastSeen(pairs, k, best, d, s1State, s2Idx, s3Idx, s3Active) ==
    IF k > Len(pairs) THEN best.choice
    ELSE LET score == evaluateActions(d, s1State, pairs[k].s2, pairs[k].s3,
                                      s2Idx, s3Idx, s3Active)
             better == (~best.set) \/ score >= best.score
         IN  ScanMoves_LastSeen(pairs, k + 1,
                                IF better
                                THEN [set |-> TRUE, score |-> score, choice |-> pairs[k]]
                                ELSE best,
                                d, s1State, s2Idx, s3Idx, s3Active)

\* the loop body: bestScore starts at -Infinity (unset), replaced on "score > bestScore"
RECURSIVE ScanMoves(_, _, _, _, _, _, _, _)
ScanMoves(pairs, k, best, d, s1State, s2Idx, s3Idx, s3Active) ==
    IF k > Len(pairs) THEN best.choice
    ELSE LET score == evaluateActions(d, s1State, pairs[k].s2, pairs[k].s3,
                                      s2Idx, s3Idx, s3Active)
             better == (~best.set) \/ score > best.score
         IN  ScanMoves(pairs, k + 1,
                       IF better
                       THEN [set |-> TRUE, score |-> score, choice |-> pairs[k]]
                       ELSE best,
                       d, s1State, s2Idx, s3Idx, s3Active)

chooseBestMove(d, s1State, s2Idx, s3Idx, s3Active) ==
    LET possibleS2 == getPossibleActions(s2Idx, TRUE)
        possibleS3 == getPossibleActions(s3Idx, s3Active)
        first == [s2 |-> possibleS2[1], s3 |-> possibleS3[1]]
    IN  ScanMoves(MovePairs(possibleS2, possibleS3), 1,
                  [set |-> FALSE, score |-> 0, choice |-> first],
                  d, s1State, s2Idx, s3Idx, s3Active)

(***************************************************************************)
(* syncInternalState                                                       *)
(***************************************************************************)
actionToPhase(action) ==
    CASE action = "S" -> "GOING_UP"
      [] action = "I" -> "INDUCTION"
      [] action = "P" -> "DRILLING"
      [] action = "B" -> "GOING_DOWN"
      [] action = "D" -> "RESTING"
      [] action = "-" -> "IDLE"

\* variant: isFirstCycle never cleared by a later UP
syncInternalState_FirstCycleKept(state, action) ==
    LET requestedPhase == actionToPhase(action)
    IN  IF state.phase # requestedPhase
        THEN [state EXCEPT
                 !.phase = requestedPhase,
                 !.daysInPhase = 1,
                 !.totalDrilled = IF action = "P" THEN @ + 1 ELSE @,
                 !.cycleCount = IF action = "S" THEN @ + 1 ELSE @]
        ELSE [state EXCEPT
                 !.daysInPhase = @ + 1,
                 !.totalDrilled = IF action = "P" THEN @ + 1 ELSE @]

\* variant: the first cycle recognised by the cycle count alone
syncInternalState_FirstCycleByCount(state, action) ==
    LET requestedPhase == actionToPhase(action)
    IN  IF state.phase # requestedPhase
        THEN [state EXCEPT
                 !.phase = requestedPhase,
                 !.daysInPhase = 1,
                 !.totalDrilled = IF action = "P" THEN @ + 1 ELSE @,
                 !.cycleCount = IF action = "S" THEN @ + 1 ELSE @,
                 !.isFirstCycle = IF action = "S"
                                  THEN (state.cycleCount = 0)
                                  ELSE @]
        ELSE [state EXCEPT
                 !.daysInPhase = @ + 1,
                 !.totalDrilled = IF action = "P" THEN @ + 1 ELSE @]

\* variant: the day of a phase change counted as day 0 of the phase
syncInternalState_CountFromZero(state, action) ==
    LET requestedPhase == actionToPhase(action)
    IN  IF state.phase # requestedPhase
        THEN [state EXCEPT
                 !.phase = requestedPhase,
                 !.daysInPhase = 0,
                 !.totalDrilled = IF action = "P" THEN @ + 1 ELSE @,
                 !.cycleCount = IF action = "S" THEN @ + 1 ELSE @,
                 !.isFirstCycle = IF action = "S"
                                  THEN (state.phase = "IDLE" /\ state.cycleCount = 0)
                                  ELSE @]
        ELSE [state EXCEPT
                 !.daysInPhase = @ + 1,
                 !.totalDrilled = IF action = "P" THEN @ + 1 ELSE @]

syncInternalState(state, action) ==
    LET requestedPhase == actionToPhase(action)
    IN  IF state.phase # requestedPhase
        THEN [state EXCEPT
                 !.phase = requestedPhase,
                 !.daysInPhase = 1,
                 !.totalDrilled = IF action = "P" THEN @ + 1 ELSE @,
                 !.cycleCount = IF action = "S" THEN @ + 1 ELSE @,
                 !.isFirstCycle = IF action = "S"
                                  THEN (state.phase = "IDLE" /\ state.cycleCount = 0)
                                  ELSE @]
        ELSE [state EXCEPT
                 !.daysInPhase = @ + 1,
                 !.totalDrilled = IF action = "P" THEN @ + 1 ELSE @]

InitialS2State ==
    [phase |-> "IDLE", daysInPhase |-> 0, cycleCount |-> 0, totalDrilled |-> 0,
     lastRestStart |-> -1, isFirstCycle |-> TRUE]

(***************************************************************************)
(* calculateDrillersPerDay                                                 *)
(***************************************************************************)
\* variant: S3 left out of the count
calculateDrillersPerDay_WithoutS3(q1, q2, q3) ==
    [d \in 0..(totalDays - 1) |-> CountP(q1[d], q2[d], "-")]

calculateDrillersPerDay(q1, q2, q3) ==
    [d \in 0..(totalDays - 1) |-> CountP(q1[d], q2[d], q3[d])]

(***************************************************************************)
(* calculateStats                                                          *)
(***************************************************************************)
\* variant: a day counted in every bucket up to its number of drillers
CountDays_AtLeast(drillersPerDay, n) ==
    Cardinality({d \in DOMAIN drillersPerDay : drillersPerDay[d] >= n})

CountDays(drillersPerDay, n) ==
    Cardinality({d \in DOMAIN drillersPerDay : drillersPerDay[d] = n})

\* the loop over s2 that sums the REST periods.  A period is closed, and added
\* to restPeriods and totalRestDays, on the first later day that is not 'D':
\* the days that close a period ...
RestPeriodEnds(q2) ==
    {d \in DOMAIN q2 : d >= 1 /\ q2[d] # "D" /\ q2[d - 1] = "D"}

\* ... and the REST days of the periods that are closed
ClosedRestDays(q2) ==
    {d \in DOMAIN q2 : q2[d] = "D" /\ \E e \in DOMAIN q2 : e > d /\ q2[e] # "D"}

calculateStats(drillersPerDay, q2) ==
    LET totalRestDays == Cardinality(ClosedRestDays(q2))
        restPeriods == Cardinality(RestPeriodEnds(q2))
    IN  [totalDays |-> totalDays,
         daysWithTwoDrillers |-> CountDays(drillersPerDay, 2),
         daysWithOneDriller |-> CountDays(drillersPerDay, 1),
         daysWithThreeDrillers |-> CountDays(drillersPerDay, 3),
         daysWithZeroDrillers |-> CountDays(drillersPerDay, 0),
         s2Cycles |-> Cardinality({d \in DOMAIN q2 :
                          q2[d] = "S" /\ (d = 0 \/ q2[d - 1] # "S")}),
         \* the quotient totalRestDays / restPeriods, kept as a fraction; 0 is 0/1
         averageRestDays |-> IF restPeriods > 0
                             THEN [num |-> totalRestDays, den |-> restPeriods]
                             ELSE [num |-> 0, den |-> 1]]

(***************************************************************************)
(* validateSequence and validateSchedule                                   *)
(***************************************************************************)
Error(type, d, message, supervisors, causedByPriority) ==
    [type |-> type, day |-> d, message |-> message, supervisors |-> supervisors,
     causedByPriority |-> causedByPriority]

\* <<e>> if the condition holds, otherwise nothing is pushed
PushIf(cond, e) == IF cond THEN <<e>> ELSE <<>>

\* variant: a DOWN->UP pair reported on the day of the DOWN
validateSequence_PreviousDay(schedule, d, supervisor) ==
    IF d = 0 \/ d >= totalDays - 1 THEN <<>>
    ELSE LET prev == schedule[d - 1]
             curr == schedule[d]
             next == schedule[d + 1]
         IN  PushIf(prev = "S" /\ curr = "S",
                    Error("INVALID_SEQUENCE", d, "S-S", <<supervisor>>, Undefined))
             \o PushIf(prev = "S" /\ curr = "B",
                    Error("INVALID_SEQUENCE", d, "S-B", <<supervisor>>, Undefined))
             \o PushIf(prev = "B" /\ curr = "S",
                    Error("INVALID_SEQUENCE", d - 1, "B-S", <<supervisor>>,
                          IF priorities.minimumRest = "low" THEN "minimumRest"
                          ELSE Undefined))
             \o PushIf(prev # "P" /\ curr = "P" /\ next # "P" /\ next # "-",
                    Error("SHORT_DRILLING", d, "1 day drilling", <<supervisor>>,
                          IF priorities.minimumDrilling = "low" THEN "minimumDrilling"
                          ELSE Undefined))

\* variant: a short drilling stint attributed to minimumDrilling when that weight is high
validateSequence_TaggedWhenHigh(schedule, d, supervisor) ==
    IF d = 0 \/ d >= totalDays - 1 THEN <<>>
    ELSE LET prev == schedule[d - 1]
             curr == schedule[d]
             next == schedule[d + 1]
         IN  PushIf(prev = "S" /\ curr = "S",
                    Error("INVALID_SEQUENCE", d, "S-S", <<supervisor>>, Undefined))
             \o PushIf(prev = "S" /\ curr = "B",
                    Error("INVALID_SEQUENCE", d, "S-B", <<supervisor>>, Undefined))
             \o PushIf(prev = "B" /\ curr = "S",
                    Error("INVALID_SEQUENCE", d, "B-S", <<supervisor>>,
                          IF priorities.minimumRest = "low" THEN "minimumRest"
                          ELSE Undefined))
             \o PushIf(prev # "P" /\ curr = "P" /\ next # "P" /\ next # "-",
                    Error("SHORT_DRILLING", d, "1 day drilling", <<supervisor>>,
                          IF priorities.minimumDrilling = "high" THEN "minimumDrilling"
                          ELSE Undefined))

\* variant: an ascent followed by anything but induction reported as invalid
validateSequence_UpThenInduction(schedule, d, supervisor) ==
    IF d = 0 \/ d >= totalDays - 1 THEN <<>>
    ELSE LET prev == schedule[d - 1]
             curr == schedule[d]
             next == schedule[d + 1]
         IN  PushIf(prev = "S" /\ curr # "I",
                    Error("INVALID_SEQUENCE", d, "S-S", <<supervisor>>, Undefined))
             \o PushIf(prev = "S" /\ curr = "B",
                    Error("INVALID_SEQUENCE", d, "S-B", <<supervisor>>, Undefined))
             \o PushIf(prev = "B" /\ curr = "S",
                    Error("INVALID_SEQUENCE", d, "B-S", <<supervisor>>,
                          IF priorities.minimumRest = "low" THEN "minimumRest"
                          ELSE Undefined))
             \o PushIf(prev # "P" /\ curr = "P" /\ next # "P" /\ next # "-",
                    Error("SHORT_DRILLING", d, "1 day drilling", <<supervisor>>,
                          IF priorities.minimumDrilling = "low" THEN "minimumDrilling"
                          ELSE Undefined))

validateSequence(schedule, d, supervisor) ==
    IF d = 0 \/ d >= totalDays - 1 THEN <<>>
    ELSE LET prev == schedule[d - 1]
             curr == schedule[d]
             next == schedule[d + 1]
         IN  PushIf(prev = "S" /\ curr = "S",
                    Error("INVALID_SEQUENCE", d, "S-S", <<supervisor>>, Undefined))
             \o PushIf(prev = "S" /\ curr = "B",
                    Error("INVALID_SEQUENCE", d, "S-B", <<supervisor>>, Undefined))
             \o PushIf(prev = "B" /\ curr = "S",
                    Error("INVALID_SEQUENCE", d, "B-S", <<supervisor>>,
                          IF priorities.minimumRest = "low" THEN "minimumRest"
                          ELSE Undefined))
             \o PushIf(prev # "P" /\ curr = "P" /\ next # "P" /\ next # "-",
                    Error("SHORT_DRILLING", d, "1 day drilling", <<supervisor>>,
                          IF priorities.minimumDrilling = "low" THEN "minimumDrilling"
                          ELSE Undefined))

\* the names of the supervisors drilling on day d, in the order S1, S2, S3
DrillingNames(q1, q2, q3, d) ==
    PushIf(q1[d] = "P", "S1") \o PushIf(q2[d] = "P", "S2") \o PushIf(q3[d] = "P", "S3")

\* variant: THREE_DRILLING reported only when noThreeDrillers is not high
DayErrors_ThreeByPriority(q1, q2, q3, drillersPerDay, s3ActiveDay, d) ==
    LET count == drillersPerDay[d]
    IN  PushIf(count = 3 /\ priorities.noThreeDrillers # "high",
               Error("THREE_DRILLING", d, "3 drilling", <<"S1", "S2", "S3">>,
                     "noThreeDrillers"))
        \o PushIf(count = 1 /\ s3ActiveDay # -1 /\ d >= s3ActiveDay,
               Error("ONE_DRILLING", d, "1 drilling", DrillingNames(q1, q2, q3, d),
                     IF priorities.minimumRest = "high" THEN "minimumRest"
                     ELSE Undefined))
        \o PushIf(count = 0 /\ d > config.inductionDays + 1,
               Error("ZERO_DRILLING", d, "0 drilling", <<>>, Undefined))
        \o validateSequence(q1, d, "S1")
        \o validateSequence(q2, d, "S2")
        \o validateSequence(q3, d, "S3")

\* variant: days of one driller reported before entity 3 enters too
DayErrors_OneFromStart(q1, q2, q3, drillersPerDay, s3ActiveDay, d) ==
    LET count == drillersPerDay[d]
    IN  PushIf(count = 3,
               Error("THREE_DRILLING", d, "3 drilling", <<"S1", "S2", "S3">>,
                     IF priorities.noThreeDrillers # "high" THEN "noThreeDrillers"
                     ELSE Undefined))
        \o PushIf(count = 1,
               Error("ONE_DRILLING", d, "1 drilling", DrillingNames(q1, q2, q3, d),
                     IF priorities.minimumRest = "high" THEN "minimumRest"
                     ELSE Undefined))
        \o PushIf(count = 0 /\ d > config.inductionDays + 1,
               Error("ZERO_DRILLING", d, "0 drilling", <<>>, Undefined))
        \o validateSequence(q1, d, "S1")
        \o validateSequence(q2, d, "S2")
        \o validateSequence(q3, d, "S3")

\* what one iteration of the loop of validateSchedule pushes
DayErrors(q1, q2, q3, drillersPerDay, s3ActiveDay, d) ==
    LET count == drillersPerDay[d]
    IN  PushIf(count = 3,
               Error("THREE_DRILLING", d, "3 drilling", <<"S1", "S2", "S3">>,
                     IF priorities.noThreeDrillers # "high" THEN "noThreeDrillers"
                     ELSE Undefined))
        \o PushIf(count = 1 /\ s3ActiveDay # -1 /\ d >= s3ActiveDay,
               Error("ONE_DRILLING", d, "1 drilling", DrillingNames(q1, q2, q3, d),
                     IF priorities.minimumRest = "high" THEN "minimumRest"
                     ELSE Undefined))
        \o PushIf(count = 0 /\ d > config.inductionDays + 1,
               Error("ZERO_DRILLING", d, "0 drilling", <<>>, Undefined))
        \o validateSequence(q1, d, "S1")
        \o validateSequence(q2, d, "S2")
        \o validateSequence(q3, d, "S3")

\* the loop "for (day = 0; day < totalDays; day++)" of validateSchedule over
\* the days from..to: what it pushes, in the order of the days (the range is
\* split in two halves, the errors of the first half coming first)
RECURSIVE ValidateDays(_, _, _, _, _, _, _)
ValidateDays(q1, q2, q3, drillersPerDay, s3ActiveDay, from, to) ==
    IF from > to THEN <<>>
    ELSE IF from = to THEN DayErrors(q1, q2, q3, drillersPerDay, s3ActiveDay, from)
    ELSE LET mid == (from + to) \div 2
         IN  ValidateDays(q1, q2, q3, drillersPerDay, s3ActiveDay, from, mid)
             \o ValidateDays(q1, q2, q3, drillersPerDay, s3ActiveDay, mid + 1, to)

\* the test d.state !== '-'
IsNotEmpty == SupervisorState \ {"-"}

\* variant: the first REST day looked up instead of the first DOWN day
IsDown_Rest == {"D"}

\* the test d.state === 'B'
IsDown == {"B"}

validateSchedule(q1, q2, q3, drillersPerDay) ==
    ValidateDays(q1, q2, q3, drillersPerDay, FindIndex(q3, IsNotEmpty),
                 0, totalDays - 1)

(***************************************************************************)
(* generateSchedule and generateCoordinatedSecondarySupervisors, as pure   *)
(* functions of a generator's data                                         *)
(***************************************************************************)
\* variant: the UP day of S3 not taken off
S3StartDay_NoUpDay(q1) == Max(0, FindIndex(q1, IsDown) - config.inductionDays)

\* variant: S3 sent up one day earlier when twoDrillers is high
S3StartDay_EarlierWhenUrgent(q1) ==
    Max(0, FindIndex(q1, IsDown) - config.inductionDays - 1
               - (IF priorities.twoDrillers = "high" THEN 1 ELSE 0))

\* PASO 2: the day S3 enters
S3StartDay(q1) == Max(0, FindIndex(q1, IsDown) - config.inductionDays - 1)

\* variant: S2 not started on day 0
Planned_S2NotStarted ==
    LET fixed == generateFixedSchedule(0)
    IN  [s1 |-> fixed,
         s3StartDay |-> S3StartDay(fixed),
         s2 |-> createEmptySchedule,
         s3 |-> createEmptySchedule,
         stateS2 |-> InitialS2State,
         stateS3 |-> InitialS2State]

\* PASO 1 and 2, and the state of the coordination before its loop: S2 starts
\* active on day 0
Planned ==
    LET fixed == generateFixedSchedule(0)
    IN  [s1 |-> fixed,
         s3StartDay |-> S3StartDay(fixed),
         s2 |-> [createEmptySchedule EXCEPT ![0] = "S"],
         s3 |-> createEmptySchedule,
         stateS2 |-> [InitialS2State EXCEPT !.phase = "GOING_UP", !.daysInPhase = 1],
         stateS3 |-> InitialS2State]

\* variant: the loop counter read from a place shared by all generators
DayStep_SharedCounter(d, q1, q2, q3, st2, st3, startDay) ==
    LET s3IsActive == day >= startDay
        bestMove == chooseBestMove(d, q1[d], st2, st3, s3IsActive)
    IN  [s2 |-> [q2 EXCEPT ![d] = bestMove.s2],
         s3 |-> [q3 EXCEPT ![d] = bestMove.s3],
         stateS2 |-> syncInternalState(st2, bestMove.s2),
         stateS3 |-> syncInternalState(st3, bestMove.s3)]

\* variant: the phase state of entity 2 left as the last scored action moved it
DayStep_ScoringInPlace(d, q1, q2, q3, st2, st3, startDay) ==
    LET s3IsActive == d >= startDay
        bestMove == chooseBestMove(d, q1[d], st2, st3, s3IsActive)
    IN  [s2 |-> [q2 EXCEPT ![d] = bestMove.s2],
         s3 |-> [q3 EXCEPT ![d] = bestMove.s3],
         stateS2 |-> syncInternalState(
             syncInternalState(st2, getPossibleActions(st2, TRUE)[
                 Len(getPossibleActions(st2, TRUE))]), bestMove.s2),
         stateS3 |-> syncInternalState(st3, bestMove.s3)]

\* one iteration of the loop "for (day = 1; day < totalDays; day++)"
DayStep(d, q1, q2, q3, st2, st3, startDay) ==
    LET s3IsActive == d >= startDay
        bestMove == chooseBestMove(d, q1[d], st2, st3, s3IsActive)
    IN  [s2 |-> [q2 EXCEPT ![d] = bestMove.s2],
         s3 |-> [q3 EXCEPT ![d] = bestMove.s3],
         stateS2 |-> syncInternalState(st2, bestMove.s2),
         stateS3 |-> syncInternalState(st3, bestMove.s3)]

\* PASO 5: metrics and validation
Outcome(q1, q2, q3) ==
    LET drillersPerDay == calculateDrillersPerDay(q1, q2, q3)
    IN  [set |-> TRUE,
         drillersPerDay |-> drillersPerDay,
         errors |-> validateSchedule(q1, q2, q3, drillersPerDay),
         stats |-> calculateStats(drillersPerDay, q2)]

(***************************************************************************)
(* The specification                                                       *)
(***************************************************************************)
NoPriorities == <<>>

\* config.priorities is optional: <<>> when absent, <<p>> when given
Configs(works, rests, inductions, targets) ==
    [workDays: works, restDays: rests, inductionDays: inductions,
     totalDrillingDays: targets,
     priorities: {NoPriorities} \cup {<<p>> : p \in AlgorithmPriorities}]

NoResult == [set |-> FALSE]

NoTwin == [pc |-> "idle"]

\* no SchedulePlanner is mounted
NoPlanner == [pc |-> "unmounted"]

\* the state after "new ScheduleGenerator(cfg)"
Constructed(cfg) ==
    /\ config = cfg
    /\ priorities = (IF cfg.priorities = NoPriorities THEN DEFAULT_PRIORITIES
                     ELSE cfg.priorities[1])
    /\ totalDays = ComputeTotalDays(cfg)
    /\ pc = "start"
    /\ day = 0
    /\ s1 = <<>> /\ s2 = <<>> /\ s3 = <<>>
    /\ s3StartDay = 0
    /\ stateS2 = InitialS2State
    /\ stateS3 = InitialS2State
    /\ result = NoResult

\* "new ScheduleGenerator(cfg)" as a step
Construct(cfg) ==
    /\ config' = cfg
    /\ priorities' = (IF cfg.priorities = NoPriorities THEN DEFAULT_PRIORITIES
                      ELSE cfg.priorities[1])
    /\ totalDays' = ComputeTotalDays(cfg)
    /\ pc' = "start"
    /\ day' = 0
    /\ s1' = <<>> /\ s2' = <<>> /\ s3' = <<>>
    /\ s3StartDay' = 0
    /\ stateS2' = InitialS2State
    /\ stateS3' = InitialS2State
    /\ result' = NoResult

Init ==
    /\ \E cfg \in Configs(1..MaxWorkDays, 1..MaxRestDays, 0..MaxInductionDays,
                          1..MaxTotalDrillingDays) : Constructed(cfg)
    /\ twin = NoTwin
    /\ planner = NoPlanner

\* generateSchedule, PASO 1 and 2, and the entry of the coordination
PlanFixed ==
    /\ pc = "start"
    /\ \E plan \in {Planned} :
           /\ s1' = plan.s1
           /\ s3StartDay' = plan.s3StartDay
           /\ s2' = plan.s2
           /\ s3' = plan.s3
           /\ stateS2' = plan.stateS2
           /\ stateS3' = plan.stateS3
    /\ day' = 1
    /\ pc' = "coordinate"
    /\ UNCHANGED <<config, priorities, totalDays, result, twin, planner>>

\* one day of the coordination loop
SimulateDay ==
    /\ pc = "coordinate"
    /\ day < totalDays
    /\ \E step \in {DayStep(day, s1, s2, s3, stateS2, stateS3, s3StartDay)} :
           /\ s2' = step.s2
           /\ s3' = step.s3
           /\ stateS2' = step.stateS2
           /\ stateS3' = step.stateS3
    /\ day' = day + 1
    /\ UNCHANGED <<config, priorities, totalDays, pc, s1, s3StartDay, result, twin,
                   planner>>

\* variant: the loop left one day before the horizon ends
Finalize_OneDayEarly ==
    /\ pc = "coordinate"
    /\ day >= totalDays - 1
    /\ result' = Outcome(s1, s2, s3)
    /\ pc' = "done"
    /\ UNCHANGED <<config, priorities, totalDays, day, s1, s2, s3, s3StartDay,
                   stateS2, stateS3, twin, planner>>

\* the loop has ended: PASO 5 and the return
Finalize ==
    /\ pc = "coordinate"
    /\ day >= totalDays
    /\ result' = Outcome(s1, s2, s3)
    /\ pc' = "done"
    /\ UNCHANGED <<config, priorities, totalDays, day, s1, s2, s3, s3StartDay,
                   stateS2, stateS3, twin, planner>>

Next == PlanFixed \/ SimulateDay \/ Finalize

Spec == Init /\ [][Next]_vars

\* the same generator over longer regimes
InitLong ==
    /\ \E cfg \in Configs((MaxWorkDays + 1)..LongWorkDays, 1..MaxRestDays,
                          0..MaxInductionDays, {LongTotalDrillingDays}) :
           Constructed(cfg)
    /\ twin = NoTwin
    /\ planner = NoPlanner

SpecLong == InitLong /\ [][Next]_vars

\* the short regimes with an induction that outlasts the working days
InitLongInduction ==
    /\ \E cfg \in Configs(1..MaxWorkDays, 1..MaxRestDays,
                          (MaxInductionDays + 1)..LongInductionDays,
                          1..MaxTotalDrillingDays) : Constructed(cfg)
    /\ twin = NoTwin
    /\ planner = NoPlanner

SpecLongInduction == InitLongInduction /\ [][Next]_vars

(***************************************************************************)
(* The configurations the test suite runs, none of them giving priorities. *)
(***************************************************************************)
TestConfig(w, r, i, t) ==
    [workDays |-> w, restDays |-> r, inductionDays |-> i,
     totalDrillingDays |-> t, priorities |-> NoPriorities]

\* "Reglas generales": the four regimes over 90 drilling days
testConfigs ==
    {TestConfig(14, 7, 5, 90), TestConfig(21, 7, 3, 90),
     TestConfig(10, 5, 2, 90), TestConfig(14, 6, 4, 90)}

\* "Casuistica 1": regime 14x7, induction 5, 30 drilling days
Casuistica1 == TestConfig(14, 7, 5, 30)

InitStandard ==
    /\ \E cfg \in testConfigs \cup {Casuistica1} : Constructed(cfg)
    /\ twin = NoTwin
    /\ planner = NoPlanner

SpecStandard == InitStandard /\ [][Next]_vars

(***************************************************************************)
(* Two generators built from the same configuration, run side by side: the *)
(* second one (twin) takes each step of generateSchedule right after the   *)
(* first has taken it.  The pairs are run on the longest of the short      *)
(* regimes.                                                                *)
(***************************************************************************)
TwinConstructed ==
    [pc |-> "start", day |-> 0, s1 |-> <<>>, s2 |-> <<>>, s3 |-> <<>>,
     s3StartDay |-> 0, stateS2 |-> InitialS2State, stateS3 |-> InitialS2State,
     result |-> NoResult]

\* the number of steps of generateSchedule a generator has taken
Rank(p, d) ==
    CASE p = "start" -> 0
      [] p = "coordinate" -> d
      [] p = "done" -> totalDays + 1

TwinCaughtUp == Rank(twin.pc, twin.day) = Rank(pc, day)

InitTwin ==
    /\ \E cfg \in Configs({MaxWorkDays}, 1..MaxRestDays, 0..MaxInductionDays,
                          1..MaxTotalDrillingDays) : Constructed(cfg)
    /\ twin = TwinConstructed
    /\ planner = NoPlanner

TwinPlanFixed ==
    /\ ~TwinCaughtUp
    /\ twin.pc = "start"
    /\ \E plan \in {Planned} :
           twin' = [twin EXCEPT !.s1 = plan.s1,
                                !.s3StartDay = plan.s3StartDay,
                                !.s2 = plan.s2,
                                !.s3 = plan.s3,
                                !.stateS2 = plan.stateS2,
                                !.stateS3 = plan.stateS3,
                                !.day = 1,
                                !.pc = "coordinate"]
    /\ UNCHANGED <<config, priorities, totalDays, pc, day, s1, s2, s3, s3StartDay,
                   stateS2, stateS3, result, planner>>

TwinSimulateDay ==
    /\ ~TwinCaughtUp
    /\ twin.pc = "coordinate"
    /\ twin.day < totalDays
    /\ \E step \in {DayStep(twin.day, twin.s1, twin.s2, twin.s3, twin.stateS2,
                              twin.stateS3, twin.s3StartDay)} :
           twin' = [twin EXCEPT !.s2 = step.s2,
                                !.s3 = step.s3,
                                !.stateS2 = step.stateS2,
                                !.stateS3 = step.stateS3,
                                !.day = @ + 1]
    /\ UNCHANGED <<config, priorities, totalDays, pc, day, s1, s2, s3, s3StartDay,
                   stateS2, stateS3, result, planner>>

TwinFinalize ==
    /\ ~TwinCaughtUp
    /\ twin.pc = "coordinate"
    /\ twin.day >= totalDays
    /\ twin' = [twin EXCEPT !.result = Outcome(twin.s1, twin.s2, twin.s3),
                            !.pc = "done"]
    /\ UNCHANGED <<config, priorities, totalDays, pc, day, s1, s2, s3, s3StartDay,
                   stateS2, stateS3, result, planner>>

NextTwin ==
    \/ TwinCaughtUp /\ PlanFixed
    \/ TwinCaughtUp /\ SimulateDay
    \/ TwinCaughtUp /\ Finalize
    \/ TwinPlanFixed
    \/ TwinSimulateDay
    \/ TwinFinalize

SpecTwin == InitTwin /\ [][NextTwin]_vars

(***************************************************************************)
(* Two runs that differ only in their priorities: a configuration is run   *)
(* without priorities (the defaults), its schedule is kept, and a second   *)
(* generator is built from the same regime, induction and target with      *)
(* priorities of its own.                                                  *)
(***************************************************************************)
InitRerun ==
    /\ \E cfg \in Configs(1..MaxWorkDays, 1..MaxRestDays, 0..MaxInductionDays,
                          1..MaxTotalDrillingDays) :
           cfg.priorities = NoPriorities /\ Constructed(cfg)
    /\ twin = NoTwin
    /\ planner = NoPlanner

\* the schedule returned by the first run
Kept == [pc |-> "kept", s1 |-> s1, s2 |-> s2, s3 |-> s3]

\* "new ScheduleGenerator({...config, priorities: p})" once the first run has
\* returned
Rerun ==
    /\ pc = "done"
    /\ twin = NoTwin
    /\ \E p \in AlgorithmPriorities \ {priorities} :
           Construct([config EXCEPT !.priorities = <<p>>])
    /\ twin' = Kept
    /\ UNCHANGED planner

NextRerun == PlanFixed \/ SimulateDay \/ Finalize \/ Rerun

SpecRerun == InitRerun /\ [][NextRerun]_vars

(***************************************************************************)
(* Two runs that differ only in noThreeDrillers and minimumDrilling, over  *)
(* the longer regimes: the first run has both at their default weight, the *)
(* second is built from the same configuration with another weight for one *)
(* or both of them.                                                        *)
(***************************************************************************)
\* the priorities that differ from p in noThreeDrillers or minimumDrilling only
TagOnlyVariants(p) ==
    {q \in AlgorithmPriorities :
        /\ q # p
        /\ q.twoDrillers = p.twoDrillers
        /\ q.minimumRest = p.minimumRest
        /\ q.maxConsecutiveWork = p.maxConsecutiveWork}

InitPair ==
    /\ \E cfg \in Configs((MaxWorkDays + 1)..LongWorkDays, 1..MaxRestDays,
                          0..MaxInductionDays, {LongTotalDrillingDays}) :
           /\ cfg.priorities # NoPriorities
           /\ cfg.priorities[1].noThreeDrillers = DEFAULT_PRIORITIES.noThreeDrillers
           /\ cfg.priorities[1].minimumDrilling = DEFAULT_PRIORITIES.minimumDrilling
           /\ Constructed(cfg)
    /\ twin = NoTwin
    /\ planner = NoPlanner

\* what the first run returned
KeptResult ==
    [pc |-> "kept", s1 |-> s1, s2 |-> s2, s3 |-> s3,
     drillersPerDay |-> result.drillersPerDay, errors |-> result.errors,
     priorities |-> priorities]

\* "new ScheduleGenerator({...config, priorities: q})" once the first run has
\* returned
RerunTagOnly ==
    /\ pc = "done"
    /\ twin = NoTwin
    /\ \E q \in TagOnlyVariants(priorities) :
           Construct([config EXCEPT !.priorities = <<q>>])
    /\ twin' = KeptResult
    /\ UNCHANGED planner

NextPair == PlanFixed \/ SimulateDay \/ Finalize \/ RerunTagOnly

SpecPair == InitPair /\ [][NextPair]_vars

(***************************************************************************)
(* The SchedulePlanner component.  Its state is the form (four numbers and *)
(* the priorities), the schedule shown, isLoading and error.  The handler  *)
(* handleGenerateSchedule has no await: from the click to its return no    *)
(* other event of the page runs, so the events are enabled only between    *)
(* two executions of the handler (planner.pc = "idle").  The generator is  *)
(* a local of the handler: it exists from its construction to the return.  *)
(***************************************************************************)
CASUS_PRESETS ==
    << [workDays |-> 14, restDays |-> 7, inductionDays |-> 5, totalDrillingDays |-> 30],
       [workDays |-> 21, restDays |-> 7, inductionDays |-> 3, totalDrillingDays |-> 30],
       [workDays |-> 10, restDays |-> 5, inductionDays |-> 2, totalDrillingDays |-> 30],
       [workDays |-> 14, restDays |-> 6, inductionDays |-> 4, totalDrillingDays |-> 30],
       [workDays |-> 7, restDays |-> 7, inductionDays |-> 1, totalDrillingDays |-> 30] >>

\* the presets that are clicked
ClickedPresets == {1, 2}

\* the text typed into a number input: <<>> when it does not start with a
\* number (parseInt gives NaN), <<n>> otherwise
TypedWorkDays == {<<>>, <<6>>, <<31>>}
TypedRestDays == {<<>>, <<2>>, <<16>>}
TypedInductionDays == {<<0>>, <<-1>>, <<6>>}
TypedTotalDrillingDays == {<<>>, <<9>>, <<366>>}

\* the priority selections that are made
SelectedPriorities == {<<"twoDrillers", "low">>, <<"twoDrillers", "high">>}

\* parseInt(text) || fallback: NaN and 0 are falsy
ParseIntOr(text, fallback) ==
    IF text = <<>> THEN fallback
    ELSE IF text[1] = 0 THEN fallback
    ELSE text[1]

\* schedule === null
NoSchedule == [set |-> FALSE]

\* no generator exists
NoGenerator == [set |-> FALSE]

\* the useState defaults
Mounted ==
    [pc |-> "idle", workDays |-> 14, restDays |-> 7, inductionDays |-> 5,
     totalDrillingDays |-> 30, priorities |-> DEFAULT_PRIORITIES,
     schedule |-> NoSchedule, isLoading |-> FALSE, error |-> ""]

InitPlanner ==
    /\ planner = Mounted
    /\ config = NoGenerator
    /\ priorities = DEFAULT_PRIORITIES
    /\ totalDays = 0
    /\ pc = "absent"
    /\ day = 0
    /\ s1 = <<>> /\ s2 = <<>> /\ s3 = <<>>
    /\ s3StartDay = 0
    /\ stateS2 = InitialS2State
    /\ stateS3 = InitialS2State
    /\ result = NoResult
    /\ twin = NoTwin

\* the generator's fields
generator == <<config, priorities, totalDays, pc, day, s1, s2, s3, s3StartDay,
               stateS2, stateS3, result>>

\* the onChange handlers of the four number inputs
setWorkDays ==
    /\ planner.pc = "idle"
    /\ \E text \in TypedWorkDays :
           planner' = [planner EXCEPT !.workDays = ParseIntOr(text, 14)]
    /\ UNCHANGED <<generator, twin>>

setRestDays ==
    /\ planner.pc = "idle"
    /\ \E text \in TypedRestDays :
           planner' = [planner EXCEPT !.restDays = ParseIntOr(text, 7)]
    /\ UNCHANGED <<generator, twin>>

setInductionDays ==
    /\ planner.pc = "idle"
    /\ \E text \in TypedInductionDays :
           planner' = [planner EXCEPT !.inductionDays = ParseIntOr(text, 5)]
    /\ UNCHANGED <<generator, twin>>

setTotalDrillingDays ==
    /\ planner.pc = "idle"
    /\ \E text \in TypedTotalDrillingDays :
           planner' = [planner EXCEPT !.totalDrillingDays = ParseIntOr(text, 30)]
    /\ UNCHANGED <<generator, twin>>

updatePriority ==
    /\ planner.pc = "idle"
    /\ \E selected \in SelectedPriorities :
           planner' = [planner EXCEPT !.priorities[selected[1]] = selected[2],
                                      !.schedule = NoSchedule,
                                      !.error = ""]
    /\ UNCHANGED <<generator, twin>>

loadPreset ==
    /\ planner.pc = "idle"
    /\ \E k \in ClickedPresets :
           planner' = [planner EXCEPT
                          !.workDays = CASUS_PRESETS[k].workDays,
                          !.restDays = CASUS_PRESETS[k].restDays,
                          !.inductionDays = CASUS_PRESETS[k].inductionDays,
                          !.totalDrillingDays = CASUS_PRESETS[k].totalDrillingDays,
                          !.schedule = NoSchedule,
                          !.error = ""]
    /\ UNCHANGED <<generator, twin>>

\* the accepted ranges of the four numbers
WorkDaysRange == 7..30
RestDaysRange == 3..15
InductionDaysRange == 1..5
TotalDrillingDaysRange == 10..365

WorkDaysMessage == "Los dias de trabajo deben estar entre 7 y 30"
RestDaysMessage == "Los dias de descanso deben estar entre 3 y 15"
InductionDaysMessage == "Los dias de induccion deben estar entre 1 y 5"
TotalDrillingDaysMessage ==
    "Los dias totales de perforacion deben estar entre 10 y 365"

\* variant: only the upper limits tested
Thrown_UpperLimitsOnly(form) ==
    IF form.workDays > 30 THEN WorkDaysMessage
    ELSE IF form.restDays > 15 THEN RestDaysMessage
    ELSE IF form.inductionDays > 5 THEN InductionDaysMessage
    ELSE IF form.totalDrillingDays > 365 THEN TotalDrillingDaysMessage
    ELSE ""

\* "Validar inputs": the message of the Error thrown, "" when none is
Thrown(form) ==
    IF form.workDays < 7 \/ form.workDays > 30 THEN WorkDaysMessage
    ELSE IF form.restDays < 3 \/ form.restDays > 15 THEN RestDaysMessage
    ELSE IF form.inductionDays < 1 \/ form.inductionDays > 5
         THEN InductionDaysMessage
    ELSE IF form.totalDrillingDays < 10 \/ form.totalDrillingDays > 365
         THEN TotalDrillingDaysMessage
    ELSE ""

\* the click on "Calcular Cronograma" (the button is disabled while
\* isLoading) and the first statements of the handler
handleGenerateSchedule ==
    /\ planner.pc = "idle"
    /\ ~planner.isLoading
    /\ planner' = [planner EXCEPT !.isLoading = TRUE, !.error = "", !.pc = "try"]
    /\ UNCHANGED <<generator, twin>>

\* a validation throws: catch and finally
Rejected ==
    /\ planner.pc = "try"
    /\ Thrown(planner) # ""
    /\ planner' = [planner EXCEPT !.error = Thrown(planner),
                                  !.isLoading = FALSE,
                                  !.pc = "idle"]
    /\ UNCHANGED <<generator, twin>>

\* no validation throws: "new ScheduleGenerator(config)"
Accepted ==
    /\ planner.pc = "try"
    /\ Thrown(planner) = ""
    /\ Construct([workDays |-> planner.workDays,
                  restDays |-> planner.restDays,
                  inductionDays |-> planner.inductionDays,
                  totalDrillingDays |-> planner.totalDrillingDays,
                  priorities |-> <<planner.priorities>>])
    /\ planner' = [planner EXCEPT !.pc = "generate"]
    /\ UNCHANGED twin

\* generateSchedule has returned: setSchedule(newSchedule), finally, and
\* the generator goes out of scope
Shown ==
    /\ planner.pc = "generate"
    /\ pc = "done"
    /\ planner' = [planner EXCEPT
                       !.schedule = [set |-> TRUE, s1 |-> s1, s2 |-> s2, s3 |-> s3,
                                     drillersPerDay |-> result.drillersPerDay,
                                     errors |-> result.errors,
                                     stats |-> result.stats],
                       !.isLoading = FALSE,
                       !.pc = "idle"]
    /\ config' = NoGenerator
    /\ priorities' = DEFAULT_PRIORITIES
    /\ totalDays' = 0
    /\ pc' = "absent"
    /\ day' = 0
    /\ s1' = <<>> /\ s2' = <<>> /\ s3' = <<>>
    /\ s3StartDay' = 0
    /\ stateS2' = InitialS2State
    /\ stateS3' = InitialS2State
    /\ result' = NoResult
    /\ UNCHANGED twin

NextPlanner ==
    \/ setWorkDays
    \/ setRestDays
    \/ setInductionDays
    \/ setTotalDrillingDays
    \/ updatePriority
    \/ loadPreset
    \/ handleGenerateSchedule
    \/ Rejected
    \/ Accepted
    \/ PlanFixed
    \/ SimulateDay
    \/ Finalize
    \/ Shown

SpecPlanner == InitPlanner /\ [][NextPlanner]_vars

(***************************************************************************)
(* chooseBestMove as a function of its arguments: the day, the state of    *)
(* entity 1 on that day, the two phase states and the activity of entity   *)
(* 3.  The phase states are drawn from the values of S2State, also those   *)
(* no run of the short regimes passes through (both entities in the same   *)
(* phase at the same time), on every day of entity 1's first cycle.        *)
(***************************************************************************)
MaxDaysInPhase == 2

PhaseStates ==
    [phase: S2Phase, daysInPhase: 1..MaxDaysInPhase, cycleCount: {0},
     totalDrilled: {0}, lastRestStart: {-1}, isFirstCycle: BOOLEAN]

\* the priorities the function is applied under
MovePriorities ==
    {NoPriorities, <<[p \in DOMAIN DEFAULT_PRIORITIES |-> "low"]>>,
     <<[DEFAULT_PRIORITIES EXCEPT !.minimumRest = "high"]>>,
     <<[DEFAULT_PRIORITIES EXCEPT !.twoDrillers = "low",
                                  !.maxConsecutiveWork = "high"]>>,
     <<[DEFAULT_PRIORITIES EXCEPT !.twoDrillers = "medium",
                                  !.maxConsecutiveWork = "high"]>>}

\* one regime, with a rest long enough for a return before the minimum rest
InitMove ==
    /\ \E cfg \in Configs({MaxWorkDays}, {MaxRestDays + 1}, 0..MaxInductionDays,
                          {MaxTotalDrillingDays}) :
           cfg.priorities \in MovePriorities /\ Constructed(cfg)
    /\ twin = NoTwin
    /\ planner = NoPlanner

\* the days of the first cycle of entity 1 and the first day of its second
MoveDays == 1..(config.workDays + config.restDays)

\* "const bestMove = this.chooseBestMove(day, s1[day].state, stateS2, stateS3,
\* s3IsActive)" applied to a day and two phase states; the arguments and the
\* value returned are kept as the result
ChooseMove ==
    /\ pc = "coordinate"
    /\ result = NoResult
    /\ \E d \in MoveDays : \E s2Idx, s3Idx \in PhaseStates :
           result' = [set |-> TRUE, day |-> d, stateS2 |-> s2Idx, stateS3 |-> s3Idx,
                      bestMove |-> chooseBestMove(d, s1[d], s2Idx, s3Idx,
                                                  d >= s3StartDay)]
    /\ UNCHANGED <<config, priorities, totalDays, pc, day, s1, s2, s3, s3StartDay,
                   stateS2, stateS3, twin, planner>>

NextMove == PlanFixed \/ ChooseMove

SpecMove == InitMove /\ [][NextMove]_vars

(***************************************************************************)
(* Vocabulary of the properties                                            *)
(***************************************************************************)
Days == 0..(totalDays - 1)

Finished == pc = "done"

\* the coordination loop has been entered: s1, s2 and s3 are allocated
Allocated == pc \in {"coordinate", "done"}

\* the schedule of entity 1, 2 or 3
Entity(e) == CASE e = 1 -> s1 [] e = 2 -> s2 [] e = 3 -> s3

ForbiddenPairs == {<<"S", "S">>, <<"S", "B">>, <<"B", "S">>}

\* the errors of the result as a set of positions of the list
ErrorIndexes == 1..Len(result.errors)

(***************************************************************************)
(* C1: no day of the returned schedule has more than two entities          *)
(* DRILLING, whatever the configuration and the priorities.                *)
(***************************************************************************)
C1_NeverMoreThanTwoDrilling ==
    Finished => \A d \in Days : result.drillersPerDay[d] <= 2

(***************************************************************************)
(* C2: for each of the three entities and every day d >= 1, the pair       *)
(* (state on d-1, state on d) is never UP->UP, UP->DOWN or DOWN->UP.       *)
(***************************************************************************)
C2_NoForbiddenTransition ==
    Finished =>
        \A e \in 1..3 : \A d \in Days \ {0} :
            <<Entity(e)[d - 1], Entity(e)[d]>> \notin ForbiddenPairs

(***************************************************************************)
(* C3: drillersPerDay[d] is the number of entities among s1, s2, s3 whose  *)
(* state on day d is DRILLING, for every day of the horizon.               *)
(***************************************************************************)
C3_CountConsistency ==
    Finished =>
        /\ DOMAIN result.drillersPerDay = Days
        /\ \A d \in Days :
               result.drillersPerDay[d]
                   = Cardinality({e \in 1..3 : Entity(e)[d] = "P"})

\* a finished run with days of zero, one and two producers, S3 among them
C3_Witness ==
    /\ Finished
    /\ \E d \in Days : s3[d] = "P" /\ result.drillersPerDay[d] = 2
    /\ \E d \in Days : s3[d] = "P" /\ result.drillersPerDay[d] = 1
    /\ \E d \in Days : result.drillersPerDay[d] = 0

(***************************************************************************)
(* C4: drillersPerDay[d] <= 3 on every day, and the errors list holds a    *)
(* THREE_DRILLING error of day d exactly when drillersPerDay[d] = 3: one   *)
(* such error for such a day, none for any other day, whatever the         *)
(* noThreeDrillers priority.                                               *)
(***************************************************************************)
ThreeDrillingErrors(d) ==
    {k \in ErrorIndexes : result.errors[k].type = "THREE_DRILLING"
                          /\ result.errors[k].day = d}

C4_SafetyCeiling ==
    Finished =>
        /\ \A d \in Days :
               /\ result.drillersPerDay[d] <= 3
               /\ Cardinality(ThreeDrillingErrors(d))
                      = (IF result.drillersPerDay[d] = 3 THEN 1 ELSE 0)
        /\ \A k \in ErrorIndexes :
               result.errors[k].type = "THREE_DRILLING"
                   => result.errors[k].day \in Days

\* a finished run with a day of three producers reported although
\* noThreeDrillers is high
C4_Witness ==
    /\ Finished
    /\ priorities.noThreeDrillers = "high"
    /\ \E d \in Days : result.drillersPerDay[d] = 3 /\ ThreeDrillingErrors(d) # {}

(***************************************************************************)
(* C6: s1, s2, s3 and drillersPerDay all have length                       *)
(*   max(ceil(totalDrillingDays / max(1, workDays - inductionDays - 1))    *)
(*       * (workDays + restDays) * 2, totalDrillingDays * 2),              *)
(* and that length exceeds totalDrillingDays.                              *)
(***************************************************************************)
\* ceil(a / b) as the least n with n * b >= a
Ceiling(a, b) == CHOOSE n \in 0..a : n * b >= a /\ \A m \in 0..a : m * b >= a => n <= m

HorizonFormula ==
    LET perCycle == IF config.workDays - config.inductionDays - 1 >= 1
                    THEN config.workDays - config.inductionDays - 1 ELSE 1
        long == Ceiling(config.totalDrillingDays, perCycle)
                    * (config.workDays + config.restDays) * 2
        short == config.totalDrillingDays * 2
    IN  IF long >= short THEN long ELSE short

C6_HorizonSizing ==
    /\ Allocated =>
           /\ DOMAIN s1 = 0..(HorizonFormula - 1)
           /\ DOMAIN s2 = 0..(HorizonFormula - 1)
           /\ DOMAIN s3 = 0..(HorizonFormula - 1)
           /\ HorizonFormula > config.totalDrillingDays
    /\ Finished => DOMAIN result.drillersPerDay = 0..(HorizonFormula - 1)

\* a finished run with more than one estimated cycle, the target not being a
\* multiple of the drilling days of a cycle
C6_Witness ==
    /\ Finished
    /\ config.workDays - config.inductionDays - 1 > 1
    /\ config.totalDrillingDays % (config.workDays - config.inductionDays - 1) # 0
    /\ totalDays > 2 * (config.workDays + config.restDays)

(***************************************************************************)
(* C7: entity 1's sequence is, on every day of the horizon, the reference  *)
(* pattern that starts with UP on day 0 and repeats 1 day UP,              *)
(* inductionDays days INDUCTION, max(1, workDays - inductionDays - 1) days *)
(* DRILLING, 1 day DOWN, max(0, restDays - 1) days REST, the last cycle    *)
(* cut at the horizon.                                                     *)
(***************************************************************************)
RefDrilling ==
    IF config.workDays - config.inductionDays - 1 >= 1
    THEN config.workDays - config.inductionDays - 1 ELSE 1

RefRest == IF config.restDays - 1 >= 0 THEN config.restDays - 1 ELSE 0

RefCycleLength == 1 + config.inductionDays + RefDrilling + 1 + RefRest

ReferencePattern(d) ==
    LET k == d % RefCycleLength
    IN  IF k = 0 THEN "S"
        ELSE IF k <= config.inductionDays THEN "I"
        ELSE IF k <= config.inductionDays + RefDrilling THEN "P"
        ELSE IF k = config.inductionDays + RefDrilling + 1 THEN "B"
        ELSE "D"

DownDays == {d \in Days : s1[d] = "B"}

HasDown == DownDays # {}

FirstDown == CHOOSE d \in DownDays : \A e \in DownDays : d <= e

UpDaysOf3 == {d \in Days : s3[d] = "S"}

FirstUpOf3 == CHOOSE d \in UpDaysOf3 : \A e \in UpDaysOf3 : d <= e

\* max(0, first DOWN day of entity 1 - inductionDays - 1), as the engine
\* evaluates it: the first DOWN day counts as -1 when the horizon holds none
EntryDay ==
    LET firstDown == IF HasDown THEN FirstDown ELSE -1
        e == firstDown - config.inductionDays - 1
    IN  IF e >= 0 THEN e ELSE 0

EntersOn(entry) ==
    /\ \A d \in Days : d < entry => s3[d] = "-"
    /\ entry \in Days /\ s3[entry] = "S"
    /\ \A d \in Days : d > entry => s3[d] # "-"

(***************************************************************************)
(* C8 as stated: with entryDay = max(0, first DOWN day of entity 1         *)
(* - inductionDays - 1), entity 3 is EMPTY on every day before entryDay,   *)
(* UP exactly on entryDay and never EMPTY after it.                        *)
(***************************************************************************)
C8_EntryDayAsStated == Finished => EntersOn(EntryDay)

(***************************************************************************)
(* C8 amended: when entity 1 has a DOWN day within the horizon, entity 3   *)
(* is EMPTY before entryDay = first DOWN day - inductionDays - 1 (which is *)
(* at least 1), UP exactly on entryDay and never EMPTY after it; when the  *)
(* horizon holds no DOWN day of entity 1, entity 3 is EMPTY on day 0, UP   *)
(* on day 1 and never EMPTY after it.                                      *)
(***************************************************************************)
C8_EntryDay ==
    Finished =>
        IF HasDown
        THEN /\ FirstDown - config.inductionDays - 1 >= 1
             /\ EntersOn(FirstDown - config.inductionDays - 1)
        ELSE EntersOn(1)

\* a finished run in which entity 3 waits several days, then enters and cycles
C8_Witness ==
    /\ Finished /\ HasDown
    /\ config.inductionDays >= 1
    /\ EntryDay >= 2
    /\ \E d \in Days : s3[d] = "D"

(***************************************************************************)
(* C9 as stated: in every run entity 3 has an UP day, entity 1 has a first *)
(* DOWN day, and the first UP day of entity 3 is strictly earlier.         *)
(***************************************************************************)
C9_EntersBeforeFirstDownAsStated ==
    Finished => /\ UpDaysOf3 # {}
                /\ HasDown
                /\ FirstUpOf3 < FirstDown

(***************************************************************************)
(* C9 amended: in every run entity 3 has an UP day, and in every run in    *)
(* which entity 1 has a DOWN day within the horizon the first UP day of    *)
(* entity 3 is strictly earlier than the first DOWN day of entity 1.       *)
(***************************************************************************)
C9_EntersBeforeFirstDown ==
    Finished => /\ UpDaysOf3 # {}
                /\ HasDown => FirstUpOf3 < FirstDown

\* a finished run without induction, where entity 3 enters on the very day
\* before entity 1 first goes DOWN
C9_Witness ==
    /\ Finished /\ HasDown
    /\ config.inductionDays = 0
    /\ UpDaysOf3 # {} /\ FirstUpOf3 = FirstDown - 1

(***************************************************************************)
(* C10 as stated: in every run entity 3 has at least one DRILLING day      *)
(* strictly before the first day on which entity 1 is DOWN.                *)
(***************************************************************************)
C10_DrillsBeforeFirstDownAsStated ==
    Finished => /\ HasDown
                /\ \E d \in Days : d < FirstDown /\ s3[d] = "P"

(***************************************************************************)
(* C10 amended: in every run in which entity 1 has a DOWN day, entity 3    *)
(* has no DRILLING day before the first DOWN day of entity 1; with         *)
(* inductionDays >= 1 it is in INDUCTION on each of the inductionDays days *)
(* before that day and DRILLING on that day; with inductionDays = 0 it is  *)
(* UP on the day before and in INDUCTION on that day.                      *)
(***************************************************************************)
C10_ProducingOnFirstDown ==
    (Finished /\ HasDown) =>
        /\ \A d \in Days : d < FirstDown => s3[d] # "P"
        /\ s3[FirstDown - config.inductionDays - 1] = "S"
        /\ config.inductionDays >= 1 =>
               /\ \A d \in (FirstDown - config.inductionDays)..(FirstDown - 1) :
                      s3[d] = "I"
               /\ s3[FirstDown] = "P"
        /\ config.inductionDays = 0 => s3[FirstDown] = "I"

\* a finished run with induction where entity 3 takes over on the first DOWN
\* day of entity 1 while entity 2 is drilling too
C10_Witness ==
    /\ Finished /\ HasDown
    /\ config.inductionDays >= 2
    /\ s3[FirstDown] = "P" /\ s2[FirstDown] = "P"

(***************************************************************************)
(* C11: for each of the four standard configurations (14/7/5, 21/7/3,      *)
(* 10/5/2, 14/6/4) with totalDrillingDays = 90 and default priorities, no  *)
(* day of the whole horizon has more than two producers.                   *)
(***************************************************************************)
C11_StandardNeverThree ==
    (Finished /\ config \in testConfigs) =>
        /\ priorities = DEFAULT_PRIORITIES
        /\ \A d \in Days : result.drillersPerDay[d] <= 2

\* the 21x7 run has returned, with two producers on more than half of its days
C11_Witness ==
    /\ Finished
    /\ config = TestConfig(21, 7, 3, 90)
    /\ 2 * result.stats.daysWithTwoDrillers > totalDays
    /\ \E d \in Days : s1[d] = "P" /\ s2[d] # "P" /\ s3[d] = "P"

(***************************************************************************)
(* C12: for each of the four standard configurations with                  *)
(* totalDrillingDays = 90 and default priorities, the number of days with  *)
(* exactly one producer is strictly less than 22% of totalDays.            *)
(***************************************************************************)
OneProducerDays == {d \in Days : result.drillersPerDay[d] = 1}

C12_FewOneProducerDays ==
    (Finished /\ config \in testConfigs) =>
        100 * Cardinality(OneProducerDays) < 22 * totalDays

\* a standard run that has returned with more than a tenth of its days on one
\* producer
C12_Witness ==
    /\ Finished
    /\ config \in testConfigs
    /\ 100 * Cardinality(OneProducerDays) > 10 * totalDays

(***************************************************************************)
(* C13: for workDays 14, restDays 7, inductionDays 5, totalDrillingDays 30 *)
(* with default priorities, the errors list holds no THREE_DRILLING error  *)
(* and no INVALID_SEQUENCE error.                                          *)
(***************************************************************************)
C13_NoCriticalErrors ==
    (Finished /\ config = Casuistica1) =>
        \A k \in ErrorIndexes :
            result.errors[k].type \notin {"THREE_DRILLING", "INVALID_SEQUENCE"}

\* the run of Casuistica 1 has returned, all three entities having gone DOWN
\* and UP again
C13_Witness ==
    /\ Finished
    /\ config = Casuistica1
    /\ priorities = DEFAULT_PRIORITIES
    /\ \A e \in 1..3 : \E d \in Days \ {0} :
           Entity(e)[d] = "S" /\ \E b \in 0..d : Entity(e)[b] = "B"

(***************************************************************************)
(* C14 as stated: for every configuration with inductionDays >= 1 and      *)
(* every priority assignment, entity 2 is UP on day 0, INDUCTION on each   *)
(* of days 1..inductionDays, and DRILLING on day inductionDays + 1.        *)
(***************************************************************************)
C14_InitialDaysOfS2AsStated ==
    (Finished /\ config.inductionDays >= 1) =>
        /\ 0..(config.inductionDays + 1) \subseteq Days
        /\ s2[0] = "S"
        /\ \A d \in 1..config.inductionDays : s2[d] = "I"
        /\ s2[config.inductionDays + 1] = "P"

(***************************************************************************)
(* C14 amended: for every configuration with inductionDays >= 1 and every  *)
(* priority assignment, entity 2 is UP on day 0 and in INDUCTION on each   *)
(* of days 1..inductionDays that the horizon holds; when the horizon holds *)
(* day inductionDays + 1 entity 2 is DRILLING on it, and otherwise         *)
(* entity 2 has no DRILLING day at all.                                    *)
(***************************************************************************)
C14_InitialDaysOfS2 ==
    (Finished /\ config.inductionDays >= 1) =>
        /\ s2[0] = "S"
        /\ \A d \in (1..config.inductionDays) \cap Days : s2[d] = "I"
        /\ IF config.inductionDays + 1 \in Days
           THEN s2[config.inductionDays + 1] = "P"
           ELSE \A d \in Days : s2[d] # "P"

\* a finished run whose horizon goes beyond the induction: entity 2 drills
\* right after it, and later goes DOWN
C14_Witness ==
    /\ Finished
    /\ config.inductionDays >= 1
    /\ config.inductionDays + 1 \in Days
    /\ s2[config.inductionDays] = "I" /\ s2[config.inductionDays + 1] = "P"
    /\ \E d \in Days : s2[d] = "B"

(***************************************************************************)
(* C15: for every configuration with workDays >= 1, restDays >= 1,         *)
(* inductionDays >= 0, totalDrillingDays >= 1, generateSchedule terminates *)
(* without raising an error after processing each day 1..totalDays-1       *)
(* exactly once in increasing order, and returns a result in which every   *)
(* index 0..totalDays-1 of s1, s2, s3 holds a state, whatever the number   *)
(* of reported errors.  Termination is stated through a measure: every     *)
(* step of the call raises Rank by one, Rank never exceeds totalDays + 1,  *)
(* and a call that has not returned always has the guard of its next step. *)
(***************************************************************************)
\* a step of the call moves from day to day + 1, starting at day 1, writes
\* only the day it processes and returns once day totalDays is reached
StepInOrder ==
    /\ pc = "start" => pc' = "coordinate" /\ day' = 1
    /\ (pc = "coordinate" /\ day < totalDays) =>
           /\ pc' = "coordinate" /\ day' = day + 1
           /\ \A d \in Days \ {day} : s2'[d] = s2[d] /\ s3'[d] = s3[d]
           /\ s1' = s1
    /\ (pc = "coordinate" /\ day >= totalDays) =>
           /\ pc' = "done" /\ day = totalDays
           /\ s1' = s1 /\ s2' = s2 /\ s3' = s3
    /\ pc # "done"
    /\ Rank(pc', day') = Rank(pc, day) + 1

\* the call is at a step it can take, or has returned
Ready ==
    /\ pc \in {"start", "coordinate", "done"}
    /\ pc = "coordinate" => day \in 1..totalDays
    /\ Rank(pc, day) \in 0..(totalDays + 1)

\* the returned result is complete
CompleteResult ==
    /\ result.set
    /\ config.workDays >= 1 /\ config.restDays >= 1
    /\ config.inductionDays >= 0 /\ config.totalDrillingDays >= 1
    /\ \A e \in 1..3 :
           /\ DOMAIN Entity(e) = Days
           /\ \A d \in Days : Entity(e)[d] \in SupervisorState
    /\ DOMAIN result.drillersPerDay = Days
    /\ Len(result.errors) >= 0

C15_Terminates ==
    /\ [][StepInOrder]_vars
    /\ [](Ready /\ (Finished => CompleteResult))

\* a run that has returned a full-length result with at least one reported
\* error for every two days of the horizon
C15_Witness ==
    /\ Finished
    /\ totalDays >= 8
    /\ 2 * Len(result.errors) >= totalDays

(***************************************************************************)
(* Induction and the cycles of an entity                                   *)
(***************************************************************************)
\* entity e has an INDUCTION day after one of its DOWN days
InductionAfterDown(e) ==
    \E b \in Days : \E d \in Days :
        b < d /\ Entity(e)[b] = "B" /\ Entity(e)[d] = "I"

(***************************************************************************)
(* C16 as stated: for each of the three entities, no sequence (s1, s2 or   *)
(* s3) contains an INDUCTION day after that entity's first DOWN day.       *)
(***************************************************************************)
C16_InductionOnlyFirstCycleAsStated ==
    Finished => \A e \in 1..3 : ~InductionAfterDown(e)

(***************************************************************************)
(* C16 amended: for each of the two reactive entities, s2 and s3 contain   *)
(* no INDUCTION day after that entity's first DOWN day, and an UP day      *)
(* after it is followed by DRILLING; entity 1 repeats its induction in     *)
(* every cycle: with inductionDays >= 1 every UP day of s1 is followed by  *)
(* an INDUCTION day, also after its first DOWN day.                        *)
(***************************************************************************)
C16_InductionOnlyFirstCycle ==
    Finished =>
        /\ \A e \in 2..3 :
               /\ ~InductionAfterDown(e)
               /\ \A b \in Days : \A d \in Days :
                      (b < d /\ Entity(e)[b] = "B" /\ Entity(e)[d] = "S"
                             /\ d + 1 \in Days)
                          => Entity(e)[d + 1] = "P"
        /\ \A d \in Days :
               (config.inductionDays >= 1 /\ s1[d] = "S" /\ d + 1 \in Days)
                   => s1[d + 1] = "I"

\* a finished run with induction in which entity 1 and entity 2 both start a
\* second cycle: entity 1 with INDUCTION, entity 2 with DRILLING
C16_Witness ==
    /\ Finished
    /\ config.inductionDays >= 1
    /\ InductionAfterDown(1)
    /\ \E b \in Days : \E d \in Days :
           b < d /\ s2[b] = "B" /\ s2[d] = "S" /\ d + 1 \in Days /\ s2[d + 1] = "P"

(***************************************************************************)
(* C17: entity 1's sequence and entity 3's entry day depend only on        *)
(* (workDays, restDays, inductionDays, totalDrillingDays): two runs that   *)
(* differ only in their priorities produce identical s1 and the same first *)
(* non-EMPTY day of s3.  Every priority assignment is compared with the    *)
(* run under the default priorities.                                       *)
(***************************************************************************)
C17_FixedPartIgnoresPriorities ==
    (Finished /\ twin.pc = "kept") =>
        /\ priorities # DEFAULT_PRIORITIES
        /\ s1 = twin.s1
        /\ FindIndex(s3, IsNotEmpty) = FindIndex(twin.s3, IsNotEmpty)

\* the second run has returned: its priorities changed what entity 2 and
\* entity 3 do, entity 1 has completed a cycle
C17_Witness ==
    /\ Finished /\ twin.pc = "kept"
    /\ s2 # twin.s2 /\ s3 # twin.s3
    /\ \E d \in Days : s1[d] = "D"

(***************************************************************************)
(* C18: every error of the returned errors list has a type in the closed   *)
(* set {THREE_DRILLING, ONE_DRILLING, INVALID_SEQUENCE, NO_DRILLING,       *)
(* ZERO_DRILLING, SHORT_DRILLING} and a day in 0..totalDays-1, and the     *)
(* list is ordered by non-decreasing day.                                  *)
(***************************************************************************)
C18_ErrorsTypedAndOrdered ==
    Finished =>
        \A k \in ErrorIndexes :
            /\ result.errors[k].type \in ErrorType
            /\ result.errors[k].day \in Days
            /\ k > 1 => result.errors[k - 1].day <= result.errors[k].day

\* a returned list with a DOWN->UP error, two errors on one day and errors
\* of two types on different days
C18_Witness ==
    /\ Finished
    /\ \E k \in ErrorIndexes :
           /\ result.errors[k].type = "INVALID_SEQUENCE"
           /\ result.errors[k].message = "B-S"
    /\ \E k \in ErrorIndexes \ {1} :
           result.errors[k - 1].day = result.errors[k].day
    /\ \E k, l \in ErrorIndexes :
           /\ result.errors[k].day < result.errors[l].day
           /\ result.errors[k].type # result.errors[l].type

\* the legal actions as a set
Legal(state) == {getPossibleActions(state, TRUE)[k] :
                     k \in DOMAIN getPossibleActions(state, TRUE)}

\* the phase states of the two reactive entities while the loop runs
Reactive == IF pc = "coordinate" THEN {stateS2, stateS3} ELSE {}

(***************************************************************************)
(* C20 as stated: for a reactive entity in phase INDUCTION, the legal      *)
(* actions always contain DRILLING, and contain INDUCTION if and only if   *)
(* daysInPhase < inductionDays.                                            *)
(***************************************************************************)
C20_InductionActionsAsStated ==
    \A state \in Reactive :
        state.phase = "INDUCTION" =>
            /\ "P" \in Legal(state)
            /\ "I" \in Legal(state) <=> state.daysInPhase < config.inductionDays

(***************************************************************************)
(* C20, amended: for a reactive entity in phase INDUCTION, the legal       *)
(* actions always contain INDUCTION, and contain DRILLING if and only if   *)
(* daysInPhase >= inductionDays; nothing else is legal.                    *)
(***************************************************************************)
C20_InductionActions ==
    \A state \in Reactive :
        state.phase = "INDUCTION" =>
            /\ "I" \in Legal(state)
            /\ "P" \in Legal(state) <=> state.daysInPhase >= config.inductionDays
            /\ Legal(state) \subseteq {"I", "P"}

\* entity 3 is inside its induction time, entity 2 has completed its own
\* and is still in induction
C20_Witness ==
    /\ pc = "coordinate"
    /\ stateS3.phase = "INDUCTION"
    /\ stateS3.daysInPhase < config.inductionDays
    /\ stateS2.phase = "INDUCTION"
    /\ stateS2.daysInPhase >= config.inductionDays

\* the range messages that match the form: one for each number out of range
MatchingMessages(form) ==
    {m \in {WorkDaysMessage} : form.workDays \notin WorkDaysRange}
    \cup {m \in {RestDaysMessage} : form.restDays \notin RestDaysRange}
    \cup {m \in {InductionDaysMessage} : form.inductionDays \notin InductionDaysRange}
    \cup {m \in {TotalDrillingDaysMessage} :
              form.totalDrillingDays \notin TotalDrillingDaysRange}

\* a step of handleGenerateSchedule on a form with a number out of range
InvalidFormStep ==
    /\ MatchingMessages(planner) # {}
    /\ \/ planner.pc = "idle" /\ planner'.pc # "idle"
       \/ planner.pc # "idle"

(***************************************************************************)
(* C19: in the planner form, when "Calcular Cronograma" is triggered with  *)
(* workDays outside 7..30, restDays outside 3..15, inductionDays outside   *)
(* 1..5 or totalDrillingDays outside 10..365, the matching range error     *)
(* message is set, the generator is not run, the previously held schedule  *)
(* is left unchanged, and isLoading is false afterwards.  Stated on the    *)
(* steps of the handler: no step builds or advances a generator or changes *)
(* the schedule, and the step after the click is the return, with the      *)
(* message set and isLoading false.                                        *)
(***************************************************************************)
C19_InvalidFormRejected ==
    [][InvalidFormStep =>
          /\ pc = "absent" /\ UNCHANGED generator
          /\ planner'.schedule = planner.schedule
          /\ planner.pc # "idle" =>
                 /\ planner'.pc = "idle"
                 /\ planner'.error \in MatchingMessages(planner)
                 /\ ~planner'.isLoading]_vars

\* the handler has returned with the workDays message while a schedule
\* generated earlier is held; restDays is out of range as well
C19_Witness ==
    /\ planner.pc = "idle"
    /\ ~planner.isLoading
    /\ planner.error = WorkDaysMessage
    /\ planner.workDays \notin WorkDaysRange
    /\ planner.restDays \notin RestDaysRange
    /\ planner.schedule # NoSchedule

(***************************************************************************)
(* C21: in the sequences of the reactive entities (s2 and s3), every DOWN  *)
(* day is immediately preceded by at least two consecutive DRILLING days,  *)
(* for every configuration and priority assignment.                        *)
(***************************************************************************)
C21_TwoDrillingDaysBeforeDown ==
    Allocated =>
        \A e \in {2, 3} : \A d \in Days :
            Entity(e)[d] = "B" =>
                /\ d >= 2
                /\ Entity(e)[d - 1] = "P"
                /\ Entity(e)[d - 2] = "P"

\* both reactive entities have gone down, entity 2 after a stint of exactly
\* two DRILLING days
C21_Witness ==
    /\ Finished
    /\ \E d \in Days : s3[d] = "B"
    /\ \E d \in Days :
           /\ d >= 3
           /\ s2[d] = "B" /\ s2[d - 1] = "P" /\ s2[d - 2] = "P" /\ s2[d - 3] # "P"

\* the consecutive pairs of states a reactive entity may show
LegalPairs ==
    {<<"-", "-">>, <<"-", "S">>, <<"S", "I">>, <<"S", "P">>, <<"I", "I">>,
     <<"I", "P">>, <<"P", "P">>, <<"P", "B">>, <<"B", "D">>, <<"D", "D">>,
     <<"D", "S">>}

\* the pairs of consecutive days of a sequence, up to the last day written
PairsOf(schedule) ==
    {<<schedule[d - 1], schedule[d]>> : d \in {e \in Days : e >= 1 /\ e < day}}

(***************************************************************************)
(* C22: for each reactive entity on each simulated day, getPossibleActions *)
(* returns one or two actions (never an empty set), and every consecutive  *)
(* pair of states in s2 and s3 belongs to {EMPTY->EMPTY, EMPTY->UP,        *)
(* UP->INDUCTION, UP->DRILLING, INDUCTION->INDUCTION, INDUCTION->DRILLING, *)
(* DRILLING->DRILLING, DRILLING->DOWN, DOWN->REST, REST->REST, REST->UP}.  *)
(***************************************************************************)
C22_LegalActionsAndPairs ==
    /\ (pc = "coordinate" /\ day < totalDays) =>
           /\ Len(getPossibleActions(stateS2, TRUE)) \in {1, 2}
           /\ Len(getPossibleActions(stateS3, day >= s3StartDay)) \in {1, 2}
    /\ Allocated => PairsOf(s2) \cup PairsOf(s3) \subseteq LegalPairs

\* a returned schedule in which both reactive entities have come back from
\* rest and gone straight to DRILLING, entity 3 entered after day 1, and nine
\* of the eleven pairs are shown
C22_Witness ==
    /\ Finished
    /\ <<"S", "P">> \in PairsOf(s2) \cap PairsOf(s3)
    /\ <<"-", "-">> \in PairsOf(s3)
    /\ Cardinality(PairsOf(s2) \cup PairsOf(s3)) >= 9

\* the UP days of a sequence among the days written so far
UpDays(schedule) == {d \in Days : d < day /\ schedule[d] = "S"}

\* the first UP day of a sequence that has one
FirstUp(schedule) == CHOOSE d \in UpDays(schedule) : \A e \in UpDays(schedule) : d <= e

\* isFirstCycle and the days after the UP days of one reactive entity
FirstCycleOnly(schedule, state) ==
    /\ Cardinality(UpDays(schedule)) = 1 => state.isFirstCycle
    /\ Cardinality(UpDays(schedule)) >= 2 => ~state.isFirstCycle
    /\ \A d \in UpDays(schedule) :
           d + 1 < day =>
               schedule[d + 1] = (IF d = FirstUp(schedule) THEN "I" ELSE "P")

(***************************************************************************)
(* C23: for each reactive entity, isFirstCycle is true from its first UP   *)
(* until its second UP and false from the second UP onwards: the entity's  *)
(* first UP day is followed by INDUCTION and every later UP day is         *)
(* followed directly by DRILLING.                                          *)
(***************************************************************************)
C23_FirstCycleFlag ==
    Allocated => FirstCycleOnly(s2, stateS2) /\ FirstCycleOnly(s3, stateS3)

\* both reactive entities have gone up a second time and have drilled on
\* the day after
C23_Witness ==
    /\ Finished
    /\ \E d \in UpDays(s2) \ {FirstUp(s2)} : d + 1 < totalDays
    /\ \E d \in UpDays(s3) \ {FirstUp(s3)} : d + 1 < totalDays

\* the move chosen, its arguments, and the legal pairs for them in iteration
\* order: entity 2's actions outer, entity 3's inner
Chosen == pc = "coordinate" /\ result # NoResult

ChosenPairs ==
    MovePairs(getPossibleActions(result.stateS2, TRUE),
              getPossibleActions(result.stateS3, result.day >= s3StartDay))

\* the score of the k-th legal pair
ChosenScore(k) ==
    evaluateActions(result.day, s1[result.day], ChosenPairs[k].s2, ChosenPairs[k].s3,
                    result.stateS2, result.stateS3, result.day >= s3StartDay)

\* the k-th pair is the first of the pairs with the highest score
FirstBest(k) ==
    /\ \A j \in DOMAIN ChosenPairs : ChosenScore(j) <= ChosenScore(k)
    /\ \A j \in DOMAIN ChosenPairs : j < k => ChosenScore(j) < ChosenScore(k)

(***************************************************************************)
(* C24: on every simulated day the pair committed by chooseBestMove        *)
(* consists of one legal action for entity 2 and one for entity 3, its     *)
(* score is the maximum over all legal pairs, and among pairs with that    *)
(* maximum score it is the first in the iteration order (entity 2's legal  *)
(* actions outer, entity 3's inner, each in getPossibleActions order).     *)
(***************************************************************************)
C24_FirstBestPairChosen ==
    Chosen =>
        \E k \in DOMAIN ChosenPairs :
            /\ result.bestMove = ChosenPairs[k]
            /\ FirstBest(k)

\* four legal pairs, and the pair chosen ties with a later one
C24_Witness ==
    /\ Chosen
    /\ Len(ChosenPairs) = 4
    /\ \E k, j \in DOMAIN ChosenPairs :
           /\ result.bestMove = ChosenPairs[k]
           /\ j > k
           /\ ChosenScore(j) = ChosenScore(k)

Abs(x) == IF x < 0 THEN -x ELSE x

\* the number of drillers of the day under the k-th legal pair
ChosenCount(k) == CountP(s1[result.day], ChosenPairs[k].s2, ChosenPairs[k].s3)

\* the three hard terms of the k-th legal pair
ThreeOf(k) == ThreeDrillersTerm(ChosenCount(k))
OneOf(k) == OneDrillerTerm(ChosenCount(k), result.day >= s3StartDay)
ZeroOf(k) == ZeroDrillersTerm(ChosenCount(k), result.day)

\* the sum of the magnitudes of the medium and soft terms of the k-th pair
SoftOf(k) ==
    Abs(TwoDrillersTerm(ChosenCount(k)))
    + Abs(WorkLimitTerm(ChosenPairs[k].s2, result.stateS2))
    + Abs(WorkLimitTerm(ChosenPairs[k].s3, result.stateS3))
    + Abs(ReturnTerm(ChosenPairs[k].s2, result.stateS2, ChosenCount(k)))
    + Abs(ReturnTerm(ChosenPairs[k].s3, result.stateS3, ChosenCount(k)))
    + Abs(ContinuityTerm(ChosenPairs[k].s2, result.stateS2, 100))
    + Abs(ContinuityTerm(ChosenPairs[k].s3, result.stateS3, 50))

(***************************************************************************)
(* C25 as stated: for every priority assignment, each of the three hard    *)
(* score terms (count > 2; count = 1 while entity 3 is active; count = 0   *)
(* past the induction window) has magnitude at least 500000 and exceeds in *)
(* magnitude the sum of all medium and soft terms that can apply to the    *)
(* same action pair.                                                       *)
(***************************************************************************)
C25_HardTermsDominateAsStated ==
    Chosen =>
        \A k \in DOMAIN ChosenPairs :
            \A hard \in {ThreeOf(k), OneOf(k), ZeroOf(k)} \ {0} :
                Abs(hard) >= 500000 /\ Abs(hard) > SoftOf(k)

(***************************************************************************)
(* C25, amended: the term for count > 2 is -1000000 and the term for       *)
(* count = 0 past the induction window is -900000 whatever the priorities, *)
(* and each exceeds in magnitude the sum of the medium and soft terms of   *)
(* the same pair.  The term for count = 1 while entity 3 is active is      *)
(* -500000 * w(twoDrillers) / 100, that is 500000, 50000 or 5000: it       *)
(* reaches 500000 only when twoDrillers is high, and it exceeds the medium *)
(* and soft terms of the same pair when twoDrillers is high or medium.     *)
(***************************************************************************)
C25_HardTermsDominate ==
    Chosen =>
        \A k \in DOMAIN ChosenPairs :
            /\ ChosenCount(k) > 2 =>
                   ThreeOf(k) = -1000000 /\ Abs(ThreeOf(k)) > SoftOf(k)
            /\ (ChosenCount(k) = 0 /\ result.day > config.inductionDays) =>
                   ZeroOf(k) = -900000 /\ Abs(ZeroOf(k)) > SoftOf(k)
            /\ (ChosenCount(k) = 1 /\ result.day >= s3StartDay) =>
                   /\ OneOf(k) = -(CASE priorities.twoDrillers = "high" -> 500000
                                     [] priorities.twoDrillers = "medium" -> 50000
                                     [] priorities.twoDrillers = "low" -> 5000)
                   /\ priorities.twoDrillers # "low" => Abs(OneOf(k)) > SoftOf(k)

\* twoDrillers is low and a legal pair leaves one driller while entity 3 is
\* active: its penalty of 5000 is smaller than the other terms of the pair
C25_Witness ==
    /\ Chosen
    /\ priorities.twoDrillers = "low"
    /\ \E k \in DOMAIN ChosenPairs :
           /\ OneOf(k) = -5000
           /\ SoftOf(k) > 5000

\* DRILLING is the only legal action of a reactive entity on day d, read from
\* its sequence: it went UP on day d-1 and not for its first cycle, or day
\* d-1 was the first day of a DRILLING stint
OnlyDrilling(schedule, d) ==
    \/ schedule[d - 1] = "S" /\ d - 1 # FirstUp(schedule)
    \/ d >= 2 /\ schedule[d - 1] = "P" /\ schedule[d - 2] # "P"

\* the legal pairs of the day about to be simulated and the pair committed
DayPairs ==
    MovePairs(getPossibleActions(stateS2, TRUE),
              getPossibleActions(stateS3, day >= s3StartDay))

Committed == chooseBestMove(day, s1[day], stateS2, stateS3, day >= s3StartDay)

\* a day of the loop is about to be simulated
Simulating == pc = "coordinate" /\ day < totalDays

(***************************************************************************)
(* C26: for every configuration and priority assignment, a day has three   *)
(* producers only if no legal action pair for that day gives a count of at *)
(* most 2: entity 1 is DRILLING and each of entities 2 and 3 has DRILLING  *)
(* as its only legal action that day (it ascended the day before on a      *)
(* non-first cycle, or it is on the second day of a drilling stint).       *)
(***************************************************************************)
C26_ThreeOnlyWhenForced ==
    /\ Simulating /\ CountP(s1[day], Committed.s2, Committed.s3) = 3 =>
           /\ \A k \in DOMAIN DayPairs :
                  CountP(s1[day], DayPairs[k].s2, DayPairs[k].s3) > 2
           /\ s1[day] = "P"
           /\ getPossibleActions(stateS2, TRUE) = <<"P">>
           /\ getPossibleActions(stateS3, day >= s3StartDay) = <<"P">>
    /\ Allocated =>
           \A d \in Days :
               d >= 1 /\ d < day /\ CountP(s1[d], s2[d], s3[d]) = 3 =>
                   /\ s1[d] = "P"
                   /\ OnlyDrilling(s2, d)
                   /\ OnlyDrilling(s3, d)

\* a returned schedule with a day of three producers
C26_Witness ==
    /\ Finished
    /\ \E d \in Days : CountP(s1[d], s2[d], s3[d]) = 3

\* w = 100/10/1 for high/medium/low
Weight(level) ==
    CASE level = "high" -> 100 [] level = "medium" -> 10 [] level = "low" -> 1

\* the one term of an ascent out of rest, by the three cases
AscentTerm(idx, count) ==
    IF count < 2 THEN (20000 * Weight(priorities.twoDrillers)) \div 100
    ELSE IF idx.daysInPhase < config.restDays - 1
         THEN -((5000 * Weight(priorities.minimumRest)) \div 10)
         ELSE 1000

\* the term expected for one entity: the ascent term for UP out of rest,
\* nothing otherwise
ExpectedReturn(action, idx, count) ==
    IF action = "S" /\ idx.phase = "RESTING" THEN AscentTerm(idx, count) ELSE 0

\* the score of the k-th legal pair without the terms of the ascents
ScoreWithoutReturn(k) ==
    ThreeOf(k) + OneOf(k) + ZeroOf(k)
    + TwoDrillersTerm(ChosenCount(k))
    + WorkLimitTerm(ChosenPairs[k].s2, result.stateS2)
    + WorkLimitTerm(ChosenPairs[k].s3, result.stateS3)
    + ContinuityTerm(ChosenPairs[k].s2, result.stateS2, 100)
    + ContinuityTerm(ChosenPairs[k].s3, result.stateS3, 50)

(***************************************************************************)
(* C27: in evaluateActions, for a reactive entity in phase RESTING whose   *)
(* candidate action is UP, exactly one of three terms applies: a reward of *)
(* 20000*w(twoDrillers)/100 if the day's producer count under the          *)
(* candidate pair is below 2; otherwise a penalty of 5000*w(minimumRest)/10*)
(* if daysInPhase < restDays - 1; otherwise a flat reward of 1000 (w =     *)
(* 100/10/1 for high/medium/low).  An ascent before the minimum rest is    *)
(* therefore never penalised while the count is below 2.                   *)
(***************************************************************************)
C27_AscentOutOfRest ==
    Chosen =>
        \A k \in DOMAIN ChosenPairs :
            ChosenScore(k) =
                ScoreWithoutReturn(k)
                + ExpectedReturn(ChosenPairs[k].s2, result.stateS2, ChosenCount(k))
                + ExpectedReturn(ChosenPairs[k].s3, result.stateS3, ChosenCount(k))

\* both entities can go up before the minimum rest; with entity 1 not
\* drilling the count is below 2 and the pair UP/UP is rewarded twice, not
\* penalised
C27_Witness ==
    /\ Chosen
    /\ result.stateS2.phase = "RESTING" /\ result.stateS3.phase = "RESTING"
    /\ result.stateS2.daysInPhase < config.restDays - 1
    /\ result.stateS3.daysInPhase < config.restDays - 1
    /\ \E k \in DOMAIN ChosenPairs :
           /\ ChosenPairs[k] = [s2 |-> "S", s3 |-> "S"]
           /\ ChosenScore(k) - ScoreWithoutReturn(k)
                  = 2 * ((20000 * Weight(priorities.twoDrillers)) \div 100)

\* the name validateSchedule gives entity e in an error
SupervisorName(e) == CASE e = 1 -> "S1" [] e = 2 -> "S2" [] e = 3 -> "S3"

\* the errors list holds an INVALID_SEQUENCE error for entity e at day d
InvalidSequenceReported(e, d) ==
    \E k \in ErrorIndexes :
        /\ result.errors[k].type = "INVALID_SEQUENCE"
        /\ result.errors[k].day = d
        /\ result.errors[k].supervisors = <<SupervisorName(e)>>

(***************************************************************************)
(* C28: for every entity and every day d from 1 to totalDays-1, the errors *)
(* list contains an INVALID_SEQUENCE error for that entity at day d if and *)
(* only if the pair (state on day d-1, state on day d) is UP->UP, UP->DOWN *)
(* or DOWN->UP; in particular such a pair ending on the last day of the    *)
(* horizon is reported.                                                    *)
(***************************************************************************)
C28_InvalidSequenceIffForbiddenPair ==
    Finished =>
        \A e \in 1..3 : \A d \in Days \ {0} :
            InvalidSequenceReported(e, d)
                <=> <<Entity(e)[d - 1], Entity(e)[d]>> \in ForbiddenPairs

\* the errors list holds an error of the type at day d
Reported(type, d) ==
    \E k \in ErrorIndexes :
        result.errors[k].type = type /\ result.errors[k].day = d

\* the first non-EMPTY day of entity 3, -1 when it has none
s3ActiveDay == FindIndex(s3, IsNotEmpty)

(***************************************************************************)
(* C29: the errors list contains a ONE_DRILLING error at day d if and only *)
(* if drillersPerDay[d] = 1 and d is on or after entity 3's first          *)
(* non-EMPTY day, and its supervisors list holds exactly the one entity    *)
(* that is DRILLING that day; it contains a ZERO_DRILLING error at day d   *)
(* if and only if drillersPerDay[d] = 0 and d > inductionDays + 1.         *)
(***************************************************************************)
C29_OneAndZeroDrillingReported ==
    Finished =>
        /\ \A d \in Days :
               /\ Reported("ONE_DRILLING", d)
                      <=> (result.drillersPerDay[d] = 1
                           /\ s3ActiveDay # -1 /\ d >= s3ActiveDay)
               /\ Reported("ZERO_DRILLING", d)
                      <=> (result.drillersPerDay[d] = 0
                           /\ d > config.inductionDays + 1)
        /\ \A k \in ErrorIndexes :
               result.errors[k].type = "ONE_DRILLING" =>
                   \E e \in 1..3 :
                       /\ result.errors[k].supervisors = <<SupervisorName(e)>>
                       /\ Entity(e)[result.errors[k].day] = "P"
                       /\ \A f \in 1..3 \ {e} : Entity(f)[result.errors[k].day] # "P"

\* a returned schedule with both kinds of error, whose day 0 without
\* driller is not reported
C29_Witness ==
    /\ Finished
    /\ \E d \in Days : Reported("ONE_DRILLING", d)
    /\ \E d \in Days : Reported("ZERO_DRILLING", d)
    /\ result.drillersPerDay[0] = 0 /\ ~Reported("ZERO_DRILLING", 0)

\* the errors that carry a causedByPriority
TaggedErrors ==
    {k \in ErrorIndexes : result.errors[k].causedByPriority # Undefined}

\* the configured weight of the rule the error is attributed to
TaggedWeight(k) == priorities[result.errors[k].causedByPriority]

\* C30 as stated: an error that carries causedByPriority = r is attributed
\* to a rule r whose configured weight is low or medium, never high
C30_TaggedRuleNotHighAsStated ==
    Finished =>
        \A k \in TaggedErrors : TaggedWeight(k) \in {"low", "medium"}

(***************************************************************************)
(* C30: whenever an error in the errors list carries causedByPriority = r, *)
(* the configured weight of rule r is low or medium, except for a          *)
(* ONE_DRILLING error: it carries causedByPriority = minimumRest, and it   *)
(* does so exactly when the weight of minimumRest is high.                 *)
(***************************************************************************)
C30_TaggedRuleNotHigh ==
    Finished =>
        /\ \A k \in TaggedErrors :
               IF result.errors[k].type = "ONE_DRILLING"
               THEN /\ result.errors[k].causedByPriority = "minimumRest"
                    /\ TaggedWeight(k) = "high"
               ELSE TaggedWeight(k) \in {"low", "medium"}
        /\ \A k \in ErrorIndexes :
               (result.errors[k].type = "ONE_DRILLING"
                    /\ priorities.minimumRest = "high") => k \in TaggedErrors

\* a returned schedule with a ONE_DRILLING error attributed to minimumRest,
\* weighted high, and another error attributed to a rule weighted low
C30_Witness ==
    /\ Finished
    /\ \E k \in TaggedErrors :
           /\ result.errors[k].type = "ONE_DRILLING"
           /\ TaggedWeight(k) = "high"
    /\ \E k \in TaggedErrors :
           /\ result.errors[k].type # "ONE_DRILLING"
           /\ TaggedWeight(k) = "low"

\* the sequence errors pushed for the entity at day d
SequenceErrors(e, d) ==
    {k \in ErrorIndexes :
        /\ result.errors[k].type \in {"INVALID_SEQUENCE", "SHORT_DRILLING"}
        /\ result.errors[k].day = d
        /\ result.errors[k].supervisors = <<SupervisorName(e)>>}

\* every three consecutive cells a sequence can hold
Triples == [0..2 -> SupervisorState]

(***************************************************************************)
(* C31: for each entity and each day, the validator emits at most one      *)
(* sequence error (INVALID_SEQUENCE or SHORT_DRILLING): the four checks of *)
(* validateSequence exclude each other, on the returned schedule and on    *)
(* every triple of cells.                                                  *)
(***************************************************************************)
C31_OneSequenceErrorAtMost ==
    Finished =>
        /\ \A e \in 1..3 : \A d \in Days : Cardinality(SequenceErrors(e, d)) <= 1
        /\ totalDays >= 3 =>
               \A q \in Triples : Len(validateSequence(q, 1, "S1")) <= 1

\* a returned schedule where entity 1 has an isolated DRILLING day on one
\* day and a DOWN->UP pair on another, each reported once
C31_Witness ==
    /\ Finished
    /\ \E d \in Days \ {0} :
           /\ s1[d - 1] = "S" /\ s1[d] = "P"
           /\ \E k \in SequenceErrors(1, d) : result.errors[k].type = "SHORT_DRILLING"
    /\ \E d \in Days \ {0} :
           /\ s1[d - 1] = "B" /\ s1[d] = "S"
           /\ \E k \in SequenceErrors(1, d) : result.errors[k].type = "INVALID_SEQUENCE"

\* the days of the returned schedule with n entities DRILLING
DaysWith(n) == {d \in Days : result.drillersPerDay[d] = n}

\* the bucket of the returned stats for n drillers
Bucket(n) ==
    CASE n = 0 -> result.stats.daysWithZeroDrillers
      [] n = 1 -> result.stats.daysWithOneDriller
      [] n = 2 -> result.stats.daysWithTwoDrillers
      [] n = 3 -> result.stats.daysWithThreeDrillers

ThreeDrillingIndexes ==
    {k \in ErrorIndexes : result.errors[k].type = "THREE_DRILLING"}

(***************************************************************************)
(* C32: in the returned stats, daysWithZeroDrillers, daysWithOneDriller,   *)
(* daysWithTwoDrillers and daysWithThreeDrillers each equal the number of  *)
(* days whose drillersPerDay value is 0, 1, 2 and 3 respectively, their    *)
(* sum equals stats.totalDays = totalDays, and daysWithThreeDrillers       *)
(* equals the number of THREE_DRILLING errors.                             *)
(***************************************************************************)
C32_BucketsCountDays ==
    Finished =>
        /\ \A n \in 0..3 : Bucket(n) = Cardinality(DaysWith(n))
        /\ Bucket(0) + Bucket(1) + Bucket(2) + Bucket(3) = result.stats.totalDays
        /\ result.stats.totalDays = totalDays
        /\ Bucket(3) = Cardinality(ThreeDrillingIndexes)

\* a returned schedule with days in each of the four buckets
C32_Witness ==
    /\ Finished
    /\ \A n \in 0..3 : Bucket(n) >= 1
    /\ ThreeDrillingIndexes # {}

\* the REST days of entity 2 and the first days of its maximal REST runs
RestDaysOf2 == {d \in Days : s2[d] = "D"}

RestRunsOf2 == {d \in RestDaysOf2 : d = 0 \/ s2[d - 1] # "D"}

(***************************************************************************)
(* C33: stats.averageRestDays is the mean length of all maximal contiguous *)
(* REST runs of entity 2's full sequence: (number of maximal REST runs in  *)
(* s2, including a run that reaches the last day of the horizon) *         *)
(* averageRestDays = total number of REST days in s2, and averageRestDays  *)
(* = 0 when s2 has no REST day.  The quotient is kept as num / den.        *)
(***************************************************************************)
C33_AverageOverAllRestRuns ==
    Finished =>
        /\ Cardinality(RestRunsOf2) * result.stats.averageRestDays.num
               = Cardinality(RestDaysOf2) * result.stats.averageRestDays.den
        /\ RestDaysOf2 = {} => result.stats.averageRestDays.num = 0

\* the phase state of a reactive entity
PhaseStateOf(e) == CASE e = 2 -> stateS2 [] e = 3 -> stateS3

\* the last day the loop has simulated (day 0 is set before the loop)
LastSimulated == day - 1

\* the states of day d and of the day before differ, or there is no day before
Changes(e, d) == d = 0 \/ Entity(e)[d] # Entity(e)[d - 1]

\* the length of the maximal run of identical states of entity e ending at d
RunLength(e, d) ==
    LET starts == {c \in 0..d : Changes(e, c)}
        last == CHOOSE c \in starts : \A b \in starts : b <= c
    IN  d - last + 1

(***************************************************************************)
(* C34: after each simulated day d, for each reactive entity whose phase   *)
(* is not IDLE, daysInPhase equals the length of the maximal run of        *)
(* identical states in that entity's sequence ending at day d; it is 1     *)
(* exactly on days where the state differs from the previous day's state.  *)
(***************************************************************************)
C34_DaysInPhaseIsRunLength ==
    Allocated =>
        \A e \in {2, 3} :
            PhaseStateOf(e).phase # "IDLE" =>
                /\ PhaseStateOf(e).daysInPhase = RunLength(e, LastSimulated)
                /\ PhaseStateOf(e).daysInPhase = 1 <=> Changes(e, LastSimulated)

\* in the middle of the loop entity 2 is on the third day of a phase and
\* entity 3, which changed state that day, on the first day of another
C34_Witness ==
    /\ pc = "coordinate"
    /\ LastSimulated >= 3
    /\ stateS2.daysInPhase = 3
    /\ s2[LastSimulated] = s2[LastSimulated - 2]
    /\ s2[LastSimulated] # s2[LastSimulated - 3]
    /\ stateS3.phase \notin {"IDLE", "GOING_UP"}
    /\ stateS3.daysInPhase = 1
    /\ s3[LastSimulated] # s3[LastSimulated - 1]

\* a step of the coordination loop: the counter moves on by one day
LoopStep == pc = "coordinate" /\ pc' = "coordinate" /\ day' = day + 1

\* the pair chooseBestMove returns for the day, from the values the loop
\* holds before the step
MoveOfDay == chooseBestMove(day, s1[day], stateS2, stateS3, day >= s3StartDay)

\* what a step of the loop leaves alone, and what it writes
OnlyTodayChanges ==
    /\ UNCHANGED <<config, priorities, totalDays, s1, s3StartDay, result>>
    /\ \A c \in Days \ {day} : s2'[c] = s2[c] /\ s3'[c] = s3[c]
    /\ s2'[day] = MoveOfDay.s2
    /\ s3'[day] = MoveOfDay.s3
    /\ stateS2' = syncInternalState(stateS2, MoveOfDay.s2)
    /\ stateS3' = syncInternalState(stateS3, MoveOfDay.s3)

ShortDrillingErrors ==
    {k \in ErrorIndexes : result.errors[k].type = "SHORT_DRILLING"}

Untagged(err) ==
    [type |-> err.type, day |-> err.day, message |-> err.message,
     supervisors |-> err.supervisors]

DaysIn(e, state) == {d \in Days : Entity(e)[d] = state}

\* the first day of a non-empty set of days
FirstOf(days) == CHOOSE d \in days : \A c \in days : d <= c

\* entity e has gone up and has drilled
HasDrilled(e) == DaysIn(e, "S") # {} /\ DaysIn(e, "P") # {}

\* the days between the first UP and the first DRILLING day of entity e
FirstInduction(e) ==
    (FirstOf(DaysIn(e, "S")) + 1)..(FirstOf(DaysIn(e, "P")) - 1)

(***************************************************************************)
(* C38: each reactive entity's first cycle contains at least               *)
(* max(1, inductionDays) consecutive INDUCTION days between its first UP   *)
(* and its first DRILLING day; in particular with inductionDays = 0        *)
(* entities 2 and 3 still spend at least one day in INDUCTION while entity *)
(* 1 spends none.                                                          *)
(***************************************************************************)
C38_FirstCycleInduction ==
    Finished =>
        /\ \A e \in {2, 3} :
               HasDrilled(e) =>
                   /\ Cardinality(FirstInduction(e)) >= Max(1, config.inductionDays)
                   /\ \A d \in FirstInduction(e) : Entity(e)[d] = "I"
        /\ config.inductionDays = 0 => DaysIn(1, "I") = {}

\* a returned schedule without induction days configured: entities 2 and 3
\* have drilled, each after one INDUCTION day, entity 1 without any
C38_Witness ==
    /\ Finished
    /\ config.inductionDays = 0
    /\ HasDrilled(1) /\ HasDrilled(2) /\ HasDrilled(3)
    /\ FirstInduction(1) = {}
    /\ Cardinality(FirstInduction(2)) = 1
    /\ Cardinality(FirstInduction(3)) = 1

(***************************************************************************)
(* The five presets of the planner, run with the default priorities: left  *)
(* out of the configuration, or given as DEFAULT_PRIORITIES.               *)
(***************************************************************************)
PresetConfigs ==
    {[workDays |-> CASUS_PRESETS[k].workDays,
      restDays |-> CASUS_PRESETS[k].restDays,
      inductionDays |-> CASUS_PRESETS[k].inductionDays,
      totalDrillingDays |-> CASUS_PRESETS[k].totalDrillingDays,
      priorities |-> p] :
        k \in DOMAIN CASUS_PRESETS, p \in {NoPriorities, <<DEFAULT_PRIORITIES>>}}

InitPresets ==
    /\ \E cfg \in PresetConfigs : Constructed(cfg)
    /\ twin = NoTwin
    /\ planner = NoPlanner

SpecPresets == InitPresets /\ [][Next]_vars

\* the days after day inductionDays + 1, up to the end of the horizon
DaysAfterInduction == {d \in Days : d > config.inductionDays + 1}

(***************************************************************************)
(* C39: for each of the five preset configurations (14/7/5, 21/7/3,        *)
(* 10/5/2, 14/6/4, 7/7/1 with totalDrillingDays = 30) and default          *)
(* priorities, at least one entity is DRILLING on every day after day      *)
(* inductionDays + 1 up to the end of the horizon, so the errors list      *)
(* contains no ZERO_DRILLING error.                                        *)
(***************************************************************************)
C39_PresetsAlwaysDrilled ==
    Finished =>
        /\ \A d \in DaysAfterInduction :
               \E e \in 1..3 : Entity(e)[d] = "P"
        /\ \A k \in ErrorIndexes : result.errors[k].type # "ZERO_DRILLING"

\* the schedule of the preset 7/7/1 has been returned: some day after the
\* induction has a single driller, and entity 1 rests on days the others cover
C39_Witness ==
    /\ Finished
    /\ config.workDays = 7 /\ config.restDays = 7
    /\ \E d \in DaysAfterInduction : result.drillersPerDay[d] = 1
    /\ \E d \in DaysAfterInduction : s1[d] = "D" /\ result.drillersPerDay[d] = 2
====
